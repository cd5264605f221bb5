# tsproxyd-android in TLA+

tsproxyd-android is an HTTP proxy for a device: an Android service that runs a
small C++ proxy over libhv in threads of its own process. This directory holds
TLA+ modules of its code, TLC configurations that check them on small instances,
and theorems about them that TLAPS proves for every value of the constants.
`PROJECT.json` maps each definition to the lines it models and lists runs,
findings and hazards.

Paths below are relative to `src/app/src/main/`; `tsproxy.cpp` is
`cpp/src/tsproxy.cpp`.

## 1. The system

| part | code | state it keeps | operations |
|---|---|---|---|
| client connections | `tsproxy.cpp` 280-348, 460-706, 708-735 | an `http_conn_t` per client `hio_t`: parser state, the request being read | `new_conn_event`, `on_recv`, `on_head_end`, `on_body`, `on_request`, `on_close` |
| upstream connections | `tsproxy.cpp` 350-386, 503-519 | an `hio_t` per request, linked to its client, with the client's `http_conn_t` as userdata | `on_upstream_connect`, and libhv's `hio_write_upstream`, `hio_close_upstream` as read and close callbacks |
| accept and dispatch | `tsproxy.cpp` 737-777, 1007-1030 | the worker loops, the next index, a queue of posted events per loop | `on_accept`, `get_next_loop`, `worker_thread`, `accept_thread`, `main` |
| routing, dumped head | `tsproxy.cpp` 182-277, 388-458 | none (pure) | `parse_proxy_port`, `http_request_dump` |
| configuration | `tsproxy.cpp` 156-180, 816-1004; `assets/tsproxyd.conf` | `g_proxyd_ctx` | `proxy_ctx_init`, `parse_confile`, `parse_args` |
| native start | `cpp/src/adapter.c` | `g_main_runing`, detached threads | `android_main_func`, `android_main`, `work_thread` |
| JNI service object | `cpp/src/com_ts_tsproxyd_TsproxydService.c` | a `TsNativeService`, its `configFilePath` | load, start, stop, unload |
| Android service | `java/.../TsproxydService.java`, `StartupReceiver.java`, `TestActivity.java` | `mNativeHandle` | `onCreate`, `onStartCommand`, `onDestroy`; started at boot or by a button |
| configuration copy | `java/.../Config.java` | the file on external storage | `copyConfigFile` |
| native activity glue | `cpp/src/android_native_app_glue.c`, `MainActivity.java` | `struct android_app`, its mutex, condition and pipe | callbacks of the main thread, `android_app_entry` of the app thread |
| libhv | `cpp/include/hv`, `jniLibs` | vendored | not the program's own code |

**How they interact.** The service copies the configuration, loads the two
libraries and calls `android_main_func`, which spawns `work_thread`; that runs
`main`, which makes one loop thread per worker and accepts in its own. `on_accept`
detaches a connection and posts it to the next worker; the worker's loop adopts it
in `new_conn_event` and owns it from then on. All callbacks of a connection and of
its upstreams run on that one loop, each to completion. Client and upstream hold
pointers to each other: closing one closes the other through the callbacks, and
`on_close` frees the `http_conn_t`, which the upstream still has as userdata.

**What is hard here.** The callbacks of the two ends come in every order: the
client can time out while its upstream connects, the server can answer before the
body is sent, either end can close while the other still has data queued, and a
connect can fail inside the very call that starts it, under the caller's feet. A
client may pipeline requests, and every request of a kept-alive connection makes
another upstream. TCP delivers a body in pieces the code does not choose.
Threads race at the start: the flag that guards `main` is set by the thread the
guard spawned, and the service object may be freed under it. The process can be
killed while the configuration is copied.

**What makes each part correct**
- connections: the upstream's userdata is its own live request when the connect
  completes; nothing is used after it was freed; the two ends close together;
  an upstream gets its head once, then body cells in order, none twice, none
  missing, and none of another request; a request starts empty; every connection
  ends.
- dispatch: each accepted connection is adopted once, none is lost, the workers
  get them in turn, and only from loops that were made.
- routing: a request goes to the port of the longest rule its dumped path starts
  with.
- start: a second `main` does not last, a proxy that has settled is not disturbed, a started
  service is served, a skipped start is skipped for a reason, the configuration is
  the copied one.
- glue: the app never holds a window the system took back, nothing is freed under
  the app thread, and no callback of the main thread waits for ever.

## 2. The modules

| module | what it is |
|---|---|
| `ProxyConn` | the clients and upstreams of one worker loop, one action per callback |
| `Session` | abstract: what a worker promises its clients |
| `MCProxyConn` | what clients send in the runs |
| `ProxyConnProofs` | type correctness and the safety of the two ends, proved |
| `StreamProofs` | what an upstream was given, relative to what its client sent, proved |
| `BodyProofs` | no cell of a body is missing, proved |
| `SessionProofs` | `ProxyConn` implements `Session`, proved |
| `SessionTheorems` | what the promise of `Session` entails, proved of `Session` alone |
| `NativeService` | service, activity, JNI object, `adapter.c`, configuration copy and `main` up to the listening socket |
| `MCNativeService`, `NativeServiceProofs` | its instance for TLC, its proofs |
| `Routing` | pure: values of the configuration, port of a path, path that is sent upstream |
| `Dealer` | abstract: what the accept loop and the workers promise together |
| `Dispatch` | `main` from its arguments on: configuration, worker loops, `on_accept`, adoption, routing of requests |
| `MCDispatch`, `DispatchProofs` | its instance for TLC, its proofs |
| `AppGlue` | the native activity glue: main thread, app thread, lock, condition and pipe |
| `MCAppGlue`, `AppGlueProofs` | its instance for TLC, its proofs |

How they fit together: `NativeService` brings `main` to its listening socket,
`Dispatch` is `main` from its arguments on and ends with a worker loop that has
adopted a connection, which is where `ProxyConn!Attach` begins. `Dispatch` extends
`Routing`; what `ProxyConn` takes from a request path is only its destination port,
as part of the input. With `android_main` of `adapter.c` the main thread stays in the first
callback of `MainActivity` after its creation that waits, `onStart`: `NativeService` takes that as given (`Free`), and
`NeverReturnsUnpolled` of `AppGlue` shows it.

### ProxyConn

One worker loop runs one callback at a time, so an action is a whole callback with
every libhv call it makes. The exceptions are `hio_readline` and `hio_read_start`,
which may deliver buffered bytes before they return. They are the last thing their
callers do to the connection, so each delivery is an action of its own.

| variable | code |
|---|---|
| `cio`, `uio` | the client's and the upstream's `hio_t`: open, with data queued, being closed when the queue is empty, with a posted close, closed |
| `conn` | the client's `http_conn_t`: not allocated, allocated, freed |
| `state`, `req` | `http_conn_t.state` and the fields of `http_msg_t` decisions depend on; `req.port` is what `parse_proxy_port` finds, `req.host` tells no host, a remote one and the proxy's own |
| `rmode` | what was last asked of the client's `hio_t`: a line, any chunk, n bytes, nothing |
| `stream`, `pos` | what the client sends and how much `on_recv` was given |
| `clink`, `ulink` | `upstream_io` of either end; `ulink` is also the upstream's userdata |
| `from`, `fwd` | the head an upstream was made for and what was handed to its socket |
| `resp` | chunks it answered |
| `worker` | the loop runs, or spins in `on_upstream_connect` |
| `touched` | clients whose `http_conn_t` was used after it was freed (history) |

A client's stream is a sequence of cells: a line of a head, or one unit of a body.
A cell is named by its position, so "in order" and "missing" are statements about
numbers. A line that is neither needed nor malformed is `other`; `lf` stands for a
line shorter than CRLF, `blank` for CRLF. A body chunk is any run of cells: TCP
cuts where it likes.

| action | code |
|---|---|
| `Attach` | `new_conn_event` |
| `RecvFirstLine`, `RecvHead`, `HeadEndFails`, `HeadEndSelf`, `HeadEndConnect`, `HeadEndConnectFails`, `RecvBody`, `RecvRefusedBody`, `RecvAfterEnd` | `on_recv` by state and outcome, with `on_head_end`, `on_body` and `on_request` |
| `OnUpstreamConnect` | `on_upstream_connect`; `HeadWritten` and `HeadNotWritten` are its outcomes |
| `UpstreamData` | `hio_write_upstream` of the upstream |
| `ConnectFails`, `UpstreamEof`, `UpstreamError`, `UpstreamFlushed` | the ways libhv closes an upstream, ending in `hio_close_upstream` |
| `ClientEof`, `ClientFails`, `ClientFlushed` | the ways it closes a client, ending in `on_close` |

`CloseClient` and `CloseUpstream` are the two close callbacks, part of every action
that closes an end. `HioClose` puts a close off while data is queued, as libhv
does; an object with an error is closed without delay. A bug a run must detect is an operator
whose comment says "A bug:"; the specification uses none of them.

Two constants say what the environment does: `ConnectFailsAtOnce` lets connect(2)
fail inside `hio_connect`, `HeadWriteMayFail` lets the write of the head fail. They
are constants because what the code promises depends on them.

Fairness (`FairSpec`) is the timers and nothing else: a pending connect succeeds or times
out, an object being closed is closed by its close timer, and a client is ended by
the keepalive timer `new_conn_event` sets. Nothing is assumed about the peers.
Weak fairness of `ClientFails` is justified because the timer runs whatever the
client does or does not do, and the finite streams and `MaxResponses` make every
client idle at some point: with endless traffic a connection may of course live on.

### Session

`Session` says what a worker promises, without callbacks, parsing, write queues or
the two directions of a link. A client asks for one upstream after the other, never
while it waits for one; an upstream is given the head of its request first and then
later positions of its client's stream, in order, without repetition, and only while
it is the one its client asked for last; an upstream that ends takes its client with
it, and a client that ends leaves no upstream it still waits for.

`ProxyConn` defines the mapping: `Client(c)` and `Up(u)` read off the states of the
two `hio_t`, `from` is what was asked, `fwd` what was given, and `KeepsPromise` is
`Promise!Spec` of the instance. One `End` of `Session` is any of the many ways in which
libhv closes the ends. A body that is cut short, or an orphaned upstream, is
within the promise: those are matters of the violated runs.

### NativeService

The main thread goes through the steps of `TsproxydService.onCreate` (copy, load,
start) and `onDestroy`, and of `MainActivity.onCreate`. The app thread of the activity
runs `android_main`. Work threads go through `work_thread` and `main` up to
`listening`. All interleave, and `Kill` may end the process at any step, after which
`Restart` finds only `file`.

- The test of `g_main_runing` and the `pthread_create` behind it are two steps
  (`StartNative`, `StartService`; `AndroidMain`, `StartActivity`), and the flag is set
  by a third thread later (`RunMain`). The service and the activity can therefore both
  find it clear, and so can two starts of the service.
- The service's callbacks run on the main thread, which never returns from the
  activity's first callback (`AppGlue`), so none of them comes after `CreateActivity`.
- `Die` is every `exit` of the code: no file, a bind that fails, a NULL
  `worker_loops` (a second `main` sets them to NULL in `proxy_ctx_init`), and the
  uncaught error of a failed load.
- `main` never returns, since nothing stops its loops, so `work_thread` has no step
  after it.
- A work thread whose `configFilePath` was freed by `unloadNativeService` reads the
  path as it was or one that names no file.

### Dispatch and Routing

`Dispatch` has the three ways through `parse_args` (exit, `-c` and `-t`, ports), the
loop of `main` that makes a worker loop per round, `accept_thread`, `on_accept` with
`get_next_loop`, the threads that enter `hloop_run` when they are scheduled, and
`new_conn_event` for the event at the head of a loop's queue. `cur` is
`s_cur_index`: it is compared by `==` before it is used and stands one past the end
between two calls. A negative `thread_num` makes no loops and leaves
`worker_loops` NULL; `OnAcceptCrashes` is the fault that follows.

`Routing` holds the pure parts. A path is a sequence of tokens: slash, colon, word.
`"im", "age"` is the word "image" cut where the rule `/im` ends, since the rules
compare characters and not words. `Schemes`, `AfterScheme` and `FromSlash` are
`strstr`, the pointer arithmetic and `strchr`, used by both `parse_proxy_port` and
`http_request_dump`.

### Dealer

`Dealer` says what comes of `on_accept`, the event queues and `new_conn_event` together, without
indexes, rounds, queues or threads: connections are numbered as they are accepted, each
is taken by at most one worker, and each worker takes them in that order. `Dispatch`
maps `naccept` and `adopted` to it; `DealsEachOnce` is `Deal!Spec` of the instance. Which
worker gets which connection is `RoundRobin`'s matter, and that each is taken in the end is
`EveryAcceptedAdopted`'s.

### AppGlue

An action is what one thread does under one hold of the mutex; `pthread_cond_wait`
is the boundary (`asleep`). A broadcast wakes the main thread; a spurious wake-up would
only test `Done` again, so none is modelled. `Done` is the
condition of each callback's loop. The app thread reads a command, runs
`android_app_pre_exec_cmd`, the app's own `onAppCmd`, and `android_app_post_exec_cmd`,
in four steps. `polls` says which `android_main` it is: TRUE is the loop the header
describes, FALSE the one of `adapter.c`, which returns 0, whereupon
`android_app_entry` returns without `android_app_destroy`. `surfaces`, `handed` and
`made` are history: which windows the system keeps, what the latest
`onSaveInstanceState` returned and what the app had stored for it.

An operator whose comment says "A bug:" is a form of the one after it that a run must
detect; no specification uses one.

## 3. The runs

| run | instance | checks | result |
|---|---|---|---|
| `relay` | 1 client, 3 upstreams, 242 pipelines of 2 or 3 requests, head writes may fail | `TypeOK`, `ConnectParksClient`, `NeverUsedAfterFree`, `ClosedInPairs`, `UnreadIsAwaited`, `HeadOnceThenInOrder`, `BodyComplete`, `EarlierUpstreamGetsNoLaterCell`, `RequestStartsCleared`, `KeepsPromise` | holds, 163 085 states |
| `failures` | 2 clients, 2 upstreams, connects may fail at once, `FairSpec` | `ConnectParksClient`, `ClosedInPairs`, `EveryConnectionEnds`, `KeepsPromise` | holds, 27 448 states |
| `service` | 3 work threads, 3 starts, the activity, 1 kill, `FairSpec` | `TypeOK`, `ListensWithFile`, `FlagIsExact`, `LoopsLostToSecondMain`, `SettledStays`, `NoTwoProxies`, `StartedIsServed` | holds, 176 108 states |
| `dispatch` | 6 connections, up to 3 workers, 4 files, 3 numbers as arguments, 30 paths, `FairSpec` | `TypeOK`, `DealtToMadeLoops`, `RoundRobin`, `EvenSpread`, `NoneLost`, `OnlyNegativeCrashes`, `RoutedByDumpedPath`, `DealsEachOnce`, `EveryAcceptedAdopted` | holds, 17 808 states |
| `glue` | 2 windows, 1 queue, 6 callbacks, both kinds of app, `FairSpec` | `TypeOK`, `HeldWindowIsLive`, `HandlerSeesWindow`, `InSyncBetweenCallbacks`, `AppDoneBeforeFree`, `SleepIsAnswered`, `WindowsOneByOne`, `SavesWhatWasMade`, `NeverReturnsUnpolled`, `ReturnsWhenPolled` | holds, 91 135 states |
| `connect_fails_at_once` | 1 client, `ConnectFailsAtOnce` | `NeverUsedAfterFree` | violated |
| `split_body` | 1 client | `BodyEndsAtContentLength` | violated |
| `text_body` | 1 client | `BodyUnaltered` | violated |
| `orphan_upstream` | 1 client, pipelines of 2 | `NoUpstreamOutlivesItsClient` | violated |
| `head_write_fails` | 1 client, `HeadWriteMayFail`, `FairSpec` | `EveryConnectionEnds` | violated |
| `short_config` | as `service` | `ServesCopiedConfig` | violated |
| `activity_hangs` | as `glue`, the app of `adapter.c`, `FairSpec` | `CallbacksReturn` | violated |

What the passing runs show:

- `relay`, `failures`: whatever the order of answers, chunks, timeouts and closes,
  the two ends of a request stay paired, an upstream is given its own request and
  nothing else, a client that is not read has an upstream to wait for, and connections end. The same runs show that `ProxyConn` implements
  `Session`.
- `service`: the flag is set late and tested early, so two `main`s in one process do
  occur; that never lasts, because the second one cannot bind and exits. A listening proxy
  that lost its loops to it has them lost only while it is on its way to the port. A start that
  is skipped is skipped for a proxy that is there. Once a proxy listens alone and no start
  is between its test of the flag and its new thread, no later start, stop or copy disturbs
  it (`SettledStays`): the race is over for the life of the process.
- `dispatch`: a connection that was detached from the accept loop reaches a worker
  even when that worker's thread has not run yet; connections are dealt in turn, each to one
  worker, so `Dispatch` implements `Dealer`; the only
  configuration that crashes is a negative number of threads; the path an upstream
  sees is sent to the port of the longest rule it starts with. (That `parse_proxy_port` and
  `http_request_dump` find the same path in a URL is not checked: they make the same calls, and
  the model has one operator for both.)
- `glue`: for an app that polls, every rendezvous ends: the main thread never sleeps unless
  the command that wakes it is on its way. A window is let go before the system takes it
  back and before the next one comes. For the app of `adapter.c` no callback after the creation
  that waits for the app thread returns; those that only write a command, such as
  `onLowMemory`, do.

The violated runs each show one place where a comment says one thing and the code
does another:

- `connect_fails_at_once`: `hio_connect` fails before it returns, its close
  callbacks free the `http_conn_t`, and `on_recv` goes on with it (`tsproxy.cpp:518`).
- `split_body`: a body is over only when one chunk is as long as Content-Length; in
  two chunks it never is, and the next request is forwarded as more of it
  (`tsproxy.cpp:670`).
- `text_body`: a chunk that is one CRLF is dropped from a body (`tsproxy.cpp:525`).
- `orphan_upstream`: the upstream of an earlier request is not closed with the
  connection (`tsproxy.cpp:512`).
- `head_write_fails`: a failed write makes the loop of `on_upstream_connect` endless,
  and its worker with it (`tsproxy.cpp:363`).
- `short_config`: a process killed while it copies leaves an empty file; a later start keeps
  it, is given its path and loads nothing of the asset (`Config.java:25`). The compiled ports are
  today those of the asset; the number of workers and the log settings are not.
- `activity_hangs`: the glue's header says that callbacks must not block
  (`android_native_app_glue.h:36`); `android_main` of `adapter.c` returns 0, the app
  thread ends, and the next callback of the activity waits for ever
  (`android_native_app_glue.c:228`).

**Bounds.** The clients of a loop share nothing but the loop, so one client shows
every behaviour of a connection; `failures` has two to show that one's end does not
depend on the other. Three upstreams and three requests are what it takes for a link
to be replaced twice, with an orphan on either side of the latest. Bodies of up to
three cells can be cut into two and three chunks, with and without a lone CRLF.
`MaxResponses` is 1: what an answer does to the client's queue does not depend on
how many came before. The requests of `Pipelines` take every branch of `on_recv`.
Upstreams are interchangeable, so `relay` uses symmetry. It checks no liveness; its
one temporal property, `KeepsPromise`, is a step property that treats upstreams
alike.
In `service`, three starts are a start, an overlapping one and one after both, beside
the one of the activity; one kill is enough, since a killed process leaves only
`file`, and a second kill would find the same three values of it. The process may
also end of itself any number of times.
In `dispatch`, six connections over up to three workers are two full rounds for three
workers and three for two, which is what it takes for an index to wrap and for an event
queue to hold more than one connection; the files are the shipped one, an empty one, one
with an odd number of threads and negative ports, and one with a negative number of
threads. The 30 paths meet each rule, words that only begin like a rule, absolute URLs and
URLs in a query.
In `glue`, six callbacks are the creation, a window given and replaced or taken back, a save,
a state change and the destruction; the main thread is in one callback at a time and each
writes at most two commands, so a pipe of three holds those plus one that nobody
waited for. The pipe of the system is longer; a write that would not fit is not made.

**Fairness.** Each liveness property says what it needs and no more.
`ProxyConn`: timers only (above). `NativeService`: every work thread of a live process
is scheduled; nothing is assumed of the main thread, the system or the user.
`Dispatch`: every worker thread is scheduled, and a loop that runs handles the events
posted to it, as libhv does on each turn; nothing is assumed of clients. `AppGlue`: the app
thread is scheduled, and the main thread is while it is inside a callback; the system need not make
another one.

Runs say `CHECK_DEADLOCK FALSE` because the modelled systems really stop: all
streams read and all connections closed; all starts used and the proxy listening; no
more connections coming in, or the process ended; no more callbacks.

Each property of a passing run has a mutant: a form of one definition with a
plausible bug, such as a missing memset, an index that wraps early, a broadcast that
is missing, an early exit that does not close, or a close callback that was not set. With the mutant in place TLC finds
the property violated.

## 4. The proofs

Every safety property of a passing run, both refinements included, is proved for all
values of the constants: any number of clients, upstreams, threads, connections,
callbacks and kills, any streams, any configuration file, arguments and paths. The
proofs assume what the modules' ASSUMEs say of the constants: NULL is no
object, the bounds are numbers, streams are sequences of cells, paths sequences of
tokens.

**`ProxyConnProofs`**: `TypeCorrect`, `ConnectIsSafe`, `EndsAreShared`, and `NoUseAfterFree` under
`~ConnectFailsAtOnce`; the run `connect_fails_at_once` shows that this assumption is
needed. The invariants are not inductive by themselves. `ConnectParksClient` says that a
connecting upstream's client is alive; to know that a close of the client reaches
the upstream, the links must agree (`LinksAgree`: the upstream a client is linked to
is linked back to it), and to know that the client is alive its `http_conn_t` must be
allocated exactly while the `hio_t` is live (`AllocatedWhileLive`). A parked client
is the key to the rest: since it is not read, no second request can replace the link
before the first upstream has connected, so at most one upstream of a client is
connecting and it is always the latest. `Safe` is the conjunction of these with
`NotTouched`. It is kept by each action, one lemma per action; the close callbacks
have lemmas of their own (`CloseClientSafe`, `CloseUpstreamSafe`) because almost every
action ends in one of them.

**`StreamProofs`**: `GivenInOrder`, `NoLateCell`, `StartsCleared`, `UnreadAwaited`. `StreamSafe` bounds
what an upstream was given by what its client has sent (`GivenWasRead`) and, for an
upstream that is not the latest, by the start of the next request. It needs that the linked
upstream is the latest (`LinkedIsLatest`), that an unused one has nothing
(`Unused`), that a connected one was given its head (`ConnectedHasHead`), and that a
request that starts has cleared fields (`ClearedAtStart`), which ties the two memsets
of `on_upstream_connect` and `on_recv` to the states in which they happen. `UnreadAwaited` has an
invariant of its own, `UnreadIsLinked`: a client that is not read has a link. That its
upstream has not ended without it follows from `ClosedInPairs` and the agreeing links.

**`BodyProofs`**: `BodiesComplete`. `BodySafe` adds that only a request that is
proxied is connected (`ProxyWhenConnected`), that none is connected while its head is
still read (`HeadNotConnected`), and that the head of a connecting upstream is the last
its client has read (`HeadIsLastRead`). Together: no cell of a body is read before
the upstream it belongs to can take it.

**`SessionProofs`**: `PromiseKept`, `Spec => KeepsPromise`: initial states map to initial
states, and each action to a step of `Session` or to a stutter, using the three
invariants above. Each close maps to one `End`.

**`SessionTheorems`**: `OneAtATime`, `GivenInTurn`. They show that the promise is worth keeping: its
steps constrain one moment each, and from them it follows that a client waits at any time for
at most one upstream, its latest, and for none once it has ended (`WaitsForLast`), and that no upstream is
ever given what was sent with or after a later request (`GivenBeforeNextAsked`). The invariant
adds that the latest upstream was asked for at the highest position (`LastIsCurrent`). They assume that
`None` is no upstream, as `ProxyConn` does. `SessionProofs` takes the first over to `ProxyConn` by
the refinement (its `OneAtATime`); the second is there what `NoLateCell` proves directly.

**`NativeServiceProofs`**: `TypeCorrect`, `FlagNeverStale`,
`NeverWithoutFile`, `LoopsOnlyLostForAWhile`, `SettledForGood`. A thread past `parse_confile` has parsed a file that exists, the
file never vanishes, and the flag is set by the step that enters `main`. For the loops,
`LoopsTaken` says that a `main` which has made its loops and finds them gone has another one
beside it that is past `proxy_ctx_init`. It needs no history of who took them: a `main`
leaves that part of its way only by listening, where the bind of the first excludes it
(`OneListener`, a conjunct of the invariant that says no more than what bind promises), or with
the whole process. `SettledForGood` puts the two together: under a settled proxy the flag is set,
so no test of it lets a start through, and the loops are its own, since no other main is there to
have taken them.

**`DispatchProofs`**: `TypeCorrect`, `DealtInTurn`, `NoConnectionLost`, `SpreadEvenly`, `OnlyMadeLoops`,
`CrashNeedsNegative`, `RoutesTheDumpedPath`, `DealKept`. `MadeInv` says that connections are
accepted only when all loops are made. `RoundInv` gives the index and the length of each
worker's share as functions of `naccept` (how many rounds are over, and where in the
present one the index stands); order, evenness and completeness follow from it by
arithmetic on quotients. `DealKept`, the refinement of `Dealer`, rests on the same two: from the
place of a connection in a worker's share its number is known (`DealtTo`), two shares have no number in
common (`DealtOnce`) and a later place is a larger number (`DealtLater`), so that the step of
`new_conn_event` is a `Take`; `on_accept` is an `Accept` and every other step a stutter. `RoutedInv` and `PortsSet` say that the latest request was
routed with the ports in force, none of which is 0, so that the last test of
`parse_proxy_port` never fires. That the first rule that matches is the longest
(`FirstIsLongest`) is a lemma about the table: of the rules, only
`/audio` and `/audio/ptt/broadcast` can match the same path.

**`AppGlueProofs`**: `TypeCorrect`, `WindowsStayLive`, `HandlersHaveWindows`, `InSync`,
`FreedAfterUse`, `SavedStateIsFresh`, `SleepsAreAnswered`, `WindowAfterWindow`, `NobodyAnswers`. The first properties are about moments when a
callback returns; the invariant has to say what is in the pipe in between.
`WindowsDue` and `WindowOrder` relate `window`, `pendingWindow`, the
command in hand and the window commands still in the pipe; `InputInSync` does the
same for the queue; `Phases` and `Ending` tie the program counter of the app thread to
its flags; `Saving` follows one `SAVE_STATE` from the pipe to the return.

`SleepsAreAnswered` is the safety half of `ReturnsWhenPolled`, the part a proof can reach: no
wake-up is lost. Its invariant, `Answering`, says that a callback whose condition is false is
due (`WaitIsDue`): the command that makes it true is in the pipe, or in the app thread's
hands at a point before it takes effect. A step may not undo what another did, so a
state command still in the pipe must be the one that is waited for or repeat the state in
force (`StateOrder`), and the app thread must not end before it was told to (`EndsWhenAsked`).
`WindowAfterWindow` needs `NoneBeforeInit`: when INIT_WINDOW is the next window command, the app
has no window; it follows from the order in which `android_app_set_window` writes the two.
`NobodyAnswers` needs `Unserved`: an app that does not poll has taken nothing from the pipe, so no
condition but that of the creation holds.

**Only model-checked:** everything with fairness: `EveryConnectionEnds`,
`NoTwoProxies`, `StartedIsServed`, `EveryAcceptedAdopted`, `ReturnsWhenPolled`.
Liveness is out of the prover's reach. The violated runs are TLC's alone too.

## 5. Not modelled, and why

- libhv: its headers are vendored (one of them, a JSON library the proxy does not
  use, is two thirds of the lines in the repository) and its code is a prebuilt
  library. Its calls are modelled from how `tsproxy.cpp` uses them and marked external in the map.
- Reuse of an `hio_t` or of a file descriptor after a close: each upstream object is
  used once. How libhv keeps its objects is not in the repository.
- The header lines of the dumped head, which are copied, and their truncation.
- Content-Length that is negative or overflows an int (`atoi` of it is undefined), and
  chunked bodies, which the code does not tell from the next request line.
- Blocking name resolution: the models have no time.
- A thread that cannot be made: the code ignores the results of `pthread_create` (`adapter.c:50`,
  `:64`, `android_native_app_glue.c:263`) and `hthread_create` (`tsproxy.cpp:1023`), and the models let neither fail.
  `StartedIsServed`, `EveryAcceptedAdopted` and `ReturnsWhenPolled` rest on it.
- A head written in part: a head is shorter than the socket's send buffer.
- What requests see while a second `main` resets `g_proxyd_ctx`: `NativeService` shows
  that the time is short, `Dispatch` has one `main`.
- Logging, ssl and `multi_mode`, which is read and then consulted by nothing.
- In the glue: input events, configuration and content rectangle, a pipe that cannot
  be made. None of them takes part in a rendezvous.
- In the JNI object: failed allocations, and what a load that fails leaks.
- Android's own order of service starts beyond one `onCreate` per `onDestroy`; the
  notification, layouts, build files, template tests.

## 6. What could come next

1. Two mains over one `g_proxyd_ctx`: `Dispatch` with a second `main` that resets the ports and
   loops under the workers of the first.
2. Content-Length as `atoi` computes it in 32 bits, as one more kind of length in
   `ProxyConn` (its proofs assume lengths in `Nat`).
3. An `HioTable` of objects reused by descriptor, and what a stale link then reaches,
   once libhv's own source is at hand.
