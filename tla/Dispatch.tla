------------------------------ MODULE Dispatch -----------------------------
(***************************************************************************)
(* main of cpp/src/tsproxy.cpp from its arguments on: the configuration,   *)
(* the worker loops and their threads, the listening socket, how           *)
(* get_next_loop deals accepted connections out to the worker loops, how a *)
(* worker loop adopts them, and where a request of theirs is sent.         *)
(*                                                                         *)
(* The accept loop runs in the thread of main, each worker loop in its     *)
(* own.  They share the event queue of each worker loop, which libhv       *)
(* guards, and g_proxyd_ctx, which this main writes no more once it        *)
(* listens; a second main of the process, which is not here, would (see    *)
(* NativeService).                                                         *)
(* What an adopted connection does in its loop is ProxyConn.  A connection *)
(* is named by its place in the order of acceptance.                       *)
(***************************************************************************)
EXTENDS Routing

CONSTANTS MaxConns,    \* connections that may come in: a bound of the model
          MaxThreads,  \* bound on thread_num
          Inis,        \* what the configuration file may say
          NCpus,       \* what get_ncpu may return
          Ports,       \* numbers given as arguments
          Paths        \* http_msg_t.path of the requests

ASSUME BoundAssumption == MaxThreads \in Nat \ {0} /\ MaxConns \in Nat
ASSUME ConfigAssumption ==
  /\ \A ini \in Inis : ini \in [Keys -> Int] /\ ini["thread_num"] <= MaxThreads
  /\ NCpus \subseteq 0..MaxThreads
  /\ \A n \in Ports : n \in Int /\ n <= MaxThreads
ASSUME PathAssumption == \A p \in Paths : p \in Seq(STRING)

VARIABLES
  pc,       \* main
  ctx,      \* g_proxyd_ctx
  nloops,   \* worker loops made so far
  looping,  \* workers whose thread is in hloop_run
  cur,      \* s_cur_index of get_next_loop
  posted,   \* events posted to a worker loop and not handled: connections
  adopted,  \* connections a worker loop has adopted, the first one first
  naccept,  \* number of connections accepted
  routed    \* the latest request that was sent on, and where

loopVars == <<cur, posted, adopted, naccept>>
vars == <<pc, ctx, nloops, looping, loopVars, routed>>

Workers == 0..(MaxThreads - 1)
PcStates == {"args", "spawn", "listen", "accepting", "exited", "crashed"}

\* Nothing was sent on yet.
NotRouted == [url |-> <<>>, port |-> 0, path |-> <<>>]

Init ==
  /\ pc = "args" /\ ctx = [k \in Keys |-> 0]
  /\ nloops = 0 /\ looping = {} /\ cur = 0
  /\ posted = [w \in Workers |-> <<>>]
  /\ adopted = [w \in Workers |-> <<>>]
  /\ naccept = 0 /\ routed = NotRouted

-----------------------------------------------------------------------------
(* main.                                                                   *)

\* parse_args: too few or too many arguments, or a file that is not loaded.
ArgsExit ==
  /\ pc = "args" /\ pc' = "exited"
  /\ UNCHANGED <<ctx, nloops, looping, loopVars, routed>>

\* "-c <confile>", or "-t <confile>", which only reads it.
ArgsConfile ==
  /\ pc = "args"
  /\ \E ini \in Inis, ncpu \in NCpus : ctx' = ParseConfile(ini, ncpu)
  /\ pc' \in {"spawn", "exited"}
  /\ UNCHANGED <<nloops, looping, loopVars, routed>>

\* "proxy_port proxy_dest_port [thread_num]".
ArgsPorts ==
  /\ pc = "args"
  /\ \E proxyd, dest \in Ports, ncpu \in NCpus, threads \in {<<>>} \union {<<n>> : n \in Ports} :
       ctx' = ParsePorts(proxyd, dest, threads, ncpu)
  /\ pc' = "spawn"
  /\ UNCHANGED <<nloops, looping, loopVars, routed>>

\* A bug: the loop of main goes on to i = thread_num.
SpawnWorkerOneMore ==
  /\ pc = "spawn" /\ nloops <= ctx["thread_num"]
  /\ nloops' = nloops + 1
  /\ UNCHANGED <<pc, ctx, looping, loopVars, routed>>

\* One round of the loop of main: hloop_new, hthread_create, whose result the code
\* ignores and which never fails here.
SpawnWorker ==
  /\ pc = "spawn" /\ nloops < ctx["thread_num"]
  /\ nloops' = nloops + 1
  /\ UNCHANGED <<pc, ctx, looping, loopVars, routed>>

\* A bug: the loop of main ends one round early.
SpawnDoneEarly ==
  /\ pc = "spawn" /\ nloops >= ctx["thread_num"] - 1
  /\ pc' = "listen"
  /\ UNCHANGED <<ctx, nloops, looping, loopVars, routed>>

\* All the worker loops are made.
SpawnDone ==
  /\ pc = "spawn" /\ nloops >= ctx["thread_num"]
  /\ pc' = "listen"
  /\ UNCHANGED <<ctx, nloops, looping, loopVars, routed>>

\* accept_thread: hloop_create_tcp_server, or exit(1).
Listen ==
  /\ pc = "listen" /\ pc' \in {"accepting", "exited"}
  /\ UNCHANGED <<ctx, nloops, looping, loopVars, routed>>

Main == ArgsExit \/ ArgsConfile \/ ArgsPorts \/ SpawnWorker \/ SpawnDone \/ Listen

-----------------------------------------------------------------------------
(* The accept loop.                                                        *)

\* A bug: the index wraps one loop too early.
NextIndexEarly == IF cur = ctx["thread_num"] - 1 THEN 0 ELSE cur

\* get_next_loop: the worker loop the next connection goes to.
NextIndex == IF cur = ctx["thread_num"] THEN 0 ELSE cur

\* worker_loops[i] can be read: malloc fails for a negative number of loops.
HasLoop(i) == ctx["thread_num"] > i

\* A bug: an event posted to a loop that does not run yet is lost.
PostEventIfRunning(w, c) ==
  posted' = IF w \in looping THEN [posted EXCEPT ![w] = Append(@, c)] ELSE posted

\* hloop_post_event: the loop keeps its events until it runs.
PostEvent(w, c) == posted' = [posted EXCEPT ![w] = Append(@, c)]

\* on_accept.
OnAccept ==
  LET w == NextIndex IN
  /\ pc = "accepting" /\ naccept < MaxConns /\ HasLoop(w)
  /\ cur' = w + 1
  /\ naccept' = naccept + 1
  /\ PostEvent(w, naccept')
  /\ UNCHANGED <<pc, ctx, nloops, looping, adopted, routed>>

\* on_accept without worker_loops: the process ends with a fault.
OnAcceptCrashes ==
  /\ pc = "accepting" /\ ~HasLoop(NextIndex)
  /\ pc' = "crashed"
  /\ UNCHANGED <<ctx, nloops, looping, loopVars, routed>>

-----------------------------------------------------------------------------
(* The worker threads.                                                     *)

Alive == pc \notin {"exited", "crashed"}

\* worker_thread: hloop_run.
WorkerThread(w) ==
  /\ Alive /\ w < nloops /\ w \notin looping
  /\ looping' = looping \union {w}
  /\ UNCHANGED <<pc, ctx, nloops, loopVars, routed>>

\* A bug: the events of a loop are handled last in, first out.
NewConnEventLast(w) ==
  /\ Alive /\ w \in looping /\ posted[w] # <<>>
  /\ adopted' = [adopted EXCEPT ![w] = Append(@, posted[w][Len(posted[w])])]
  /\ posted' = [posted EXCEPT ![w] = SubSeq(@, 1, Len(@) - 1)]
  /\ UNCHANGED <<pc, ctx, nloops, looping, cur, naccept, routed>>

\* new_conn_event, for the event posted first.
NewConnEvent(w) ==
  /\ Alive /\ w \in looping /\ posted[w] # <<>>
  /\ adopted' = [adopted EXCEPT ![w] = Append(@, Head(posted[w]))]
  /\ posted' = [posted EXCEPT ![w] = Tail(@)]
  /\ UNCHANGED <<pc, ctx, nloops, looping, cur, naccept, routed>>

\* on_head_end of a connection of worker w, and the head written upstream.
OnHeadEnd(w, p) ==
  /\ Alive /\ adopted[w] # <<>>
  /\ routed' = [url |-> p, port |-> ParseProxyPort(ctx, p), path |-> DumpedPath(p)]
  /\ UNCHANGED <<pc, ctx, nloops, looping, loopVars>>

Worker(w) == WorkerThread(w) \/ NewConnEvent(w)

Next ==
  \/ Main
  \/ OnAccept \/ OnAcceptCrashes
  \/ \E w \in Workers : Worker(w) \/ \E p \in Paths : OnHeadEnd(w, p)

Spec == Init /\ [][Next]_vars

\* Every worker thread is scheduled, and a running loop handles its events.
FairSpec ==
  Spec /\ \A w \in Workers : WF_vars(WorkerThread(w)) /\ WF_vars(NewConnEvent(w))

-----------------------------------------------------------------------------
(* Properties.                                                             *)

\* The connections dealt to a worker loop, in the order it gets them.
Dealt(w) == adopted[w] \o posted[w]

\* Every variable has its type; the index stays within worker_loops, its end
\* included.
TypeOK ==
  /\ pc \in PcStates /\ ctx \in [Keys -> Int]
  /\ nloops \in 0..MaxThreads /\ looping \subseteq Workers
  /\ cur \in 0..MaxThreads
  /\ posted \in [Workers -> Seq(Nat)] /\ adopted \in [Workers -> Seq(Nat)]
  /\ naccept \in 0..MaxConns
  /\ routed.port \in Int

\* get_next_loop never hands out a loop that main has not made (its index is
\* compared with ==, one past the end, before it is used).
DealtToMadeLoops == \A w \in Workers : Dealt(w) # <<>> => w < nloops

\* The j-th connection a worker loop gets is the one accepted in the j-th round,
\* at this loop's place in it: workers that start late, or lag behind, neither
\* reorder the connections nor take another's.
RoundRobin ==
  \A w \in Workers : \A j \in 1..Len(Dealt(w)) :
    Dealt(w)[j] = (j - 1) * ctx["thread_num"] + w + 1

\* No worker loop gets two connections more than another.
EvenSpread ==
  \A w, v \in Workers : w < ctx["thread_num"] /\ v < ctx["thread_num"]
    => Len(Dealt(w)) <= Len(Dealt(v)) + 1

\* A connection detached from the accept loop is never lost: it is in the
\* queue of a worker loop or adopted, also when that loop does not run yet.
NoneLost ==
  \A c \in 1..naccept :
    \E w \in Workers : \E j \in 1..Len(Dealt(w)) : Dealt(w)[j] = c

\* Accepting a connection reads outside worker_loops only when the configured
\* number of threads is negative: no other file or argument leaves main without
\* a worker loop.
OnlyNegativeCrashes == pc = "crashed" => ctx["thread_num"] < 0

\* The index of the accept loop, the event queues and worker threads that start
\* late come to this: Dealer.  No connection is adopted by two loops or twice, and
\* none is overtaken by a later one in its loop.
Deal == INSTANCE Dealer WITH accepted <- naccept, taken <- adopted
DealsEachOnce == Deal!Spec

\* Every accepted connection is adopted by a worker loop.
EveryAcceptedAdopted ==
  \A c \in 1..MaxConns : naccept >= c ~>
    \E w \in Workers : \E j \in 1..Len(adopted[w]) : adopted[w][j] = c

\* The key tsproxyd.conf gives for a path: of the rules it starts with, the
\* longest one; what starts with none goes to port_dest.
LongestKey(p) ==
  LET M == {i \in 1..Len(Rules) : IsPrefix(Rules[i].prefix, p)}
      longest == CHOOSE i \in M : \A j \in M : Len(Rules[j].prefix) <= Len(Rules[i].prefix)
  IN IF M = {} THEN "dest" ELSE Rules[longest].key

\* A request is sent to the port that is configured for the path its upstream
\* sees, by the longest rule: the order of the tests of parse_proxy_port takes no
\* path from a more specific rule, and no port in force is left at 0.
RoutedByDumpedPath ==
  routed # NotRouted => routed.port = ctx[LongestKey(routed.path)]

=============================================================================
