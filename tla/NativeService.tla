--------------------------- MODULE NativeService ---------------------------
(***************************************************************************)
(* How the proxy is started: TsproxydService, MainActivity and Config      *)
(* (Java), the JNI service object, android_main_func, android_main and     *)
(* work_thread (adapter.c), and main of tsproxy.cpp up to the listening    *)
(* socket.                                                                 *)
(*                                                                         *)
(* The main thread runs the callbacks of the service and of the activity,  *)
(* the app thread of the activity runs android_main, work threads run main,*)
(* detached; all share one process.  The process may be killed at any      *)
(* step, and the configuration file is what survives it.                   *)
(***************************************************************************)
EXTENDS Integers

CONSTANTS Threads,    \* work threads a process may have: a bound of the model
          NoThread,   \* the NULL worker_loops
          MaxStarts,  \* calls of onCreate: a bound of the model
          MaxKills    \* kills from outside: a bound of the model

ASSUME ThreadAssumption == NoThread \notin Threads
ASSUME BoundAssumption == MaxStarts \in Nat /\ MaxKills \in Nat

VARIABLES
  alive,    \* the process
  service,  \* how far the main thread is in the life of the service
  activity, \* how far MainActivity is, on the main thread and the app thread
  file,     \* tsproxyd.conf in the external files directory
  path,     \* copyConfigFile returned a path, not ""
  handle,   \* mNativeHandle: the number of its onCreate, or 0
  running,  \* g_main_runing
  pc,       \* work threads
  arg,      \* whose configFilePath a work thread was given, or 0 for NULL
  conf,     \* the file a work thread has parsed
  loops,    \* who allocated g_proxyd_ctx.worker_loops
  starts, kills

mainVars == <<service, activity, path, handle>>
threadVars == <<running, pc, arg, conf, loops>>
vars == <<alive, mainVars, file, threadVars, starts, kills>>

ServiceStates == {"none", "copying", "copied", "loaded", "starting", "started"}
ActivityStates == {"none", "copying", "created", "starting", "ran"}
Files == {"none", "empty", "whole"}
InMain == {"main", "parsed", "looping", "listening"}
PcStates == {"idle", "spawned"} \union InMain

Listening(t) == pc[t] = "listening"

Init ==
  /\ alive = TRUE /\ service = "none" /\ activity = "none" /\ file = "none"
  /\ path = FALSE /\ handle = 0 /\ running = FALSE
  /\ pc = [t \in Threads |-> "idle"]
  /\ arg = [t \in Threads |-> 0]
  /\ conf = [t \in Threads |-> "none"]
  /\ loops = NoThread /\ starts = 0 /\ kills = 0

\* exit, a signal or the system ends the process: only the file is left.
Die ==
  /\ alive' = FALSE
  /\ service' = "none" /\ activity' = "none" /\ path' = FALSE
  /\ handle' = 0 /\ running' = FALSE
  /\ pc' = [t \in Threads |-> "idle"]
  /\ arg' = [t \in Threads |-> 0]
  /\ conf' = [t \in Threads |-> "none"]
  /\ loops' = NoThread
  /\ UNCHANGED <<file, starts>>

Kill == alive /\ kills < MaxKills /\ Die /\ kills' = kills + 1

\* START_STICKY, the button or the boot receiver make a new process.
Restart ==
  /\ ~alive /\ alive' = TRUE
  /\ UNCHANGED <<mainVars, file, threadVars, starts, kills>>

-----------------------------------------------------------------------------
(* The main thread.                                                        *)

\* The main thread is free for a callback of the service: from the creation of
\* MainActivity on it waits for the app thread, which has ended (see AppGlue).
Free == alive /\ activity = "none"

\* The service is about to be created.
Creating == Free /\ service = "none" /\ starts < MaxStarts /\ starts' = starts + 1

\* Config.copyConfigFile: there is a file already, whatever is in it.
KeepConfig ==
  /\ Creating /\ file # "none"
  /\ service' = "copied" /\ path' = TRUE
  /\ UNCHANGED <<alive, activity, handle, file, threadVars, kills>>

\* createNewFile, then the bytes of the asset, fewer than one buffer.
CreateConfig ==
  /\ Creating /\ file = "none"
  /\ file' = "empty" /\ service' = "copying"
  /\ UNCHANGED <<alive, activity, path, handle, threadVars, kills>>

WriteConfig ==
  /\ alive /\ service = "copying"
  /\ file' = "whole" /\ service' = "copied" /\ path' = TRUE
  /\ UNCHANGED <<alive, activity, handle, threadVars, starts, kills>>

\* IOException, before the file is made or after: the path is "".
CopyFails ==
  /\ \/ Creating /\ file = "none"
     \/ alive /\ service = "copying" /\ UNCHANGED starts
  /\ service' = "copied" /\ path' = FALSE
  /\ UNCHANGED <<alive, activity, handle, file, threadVars, kills>>

\* loadNativeService; its failure is an UnsatisfiedLinkError nobody catches.
LoadNative ==
  /\ alive /\ service = "copied"
  /\ \/ /\ handle' = starts /\ service' = "loaded"
        /\ UNCHANGED <<alive, activity, path, file, threadVars, starts, kills>>
     \/ Die /\ UNCHANGED kills

\* onStartNativeService, android_main_func: no second proxy in one process.
StartNative ==
  /\ alive /\ service = "loaded"
  /\ service' = IF running THEN "started" ELSE "starting"
  /\ UNCHANGED <<alive, activity, path, handle, file, threadVars, starts, kills>>

\* pthread_create: a new thread runs work_thread.  The code ignores the result of
\* the call; here it never fails.
Spawn(t, configFilePath) ==
  /\ pc[t] = "idle"
  /\ pc' = [pc EXCEPT ![t] = "spawned"]
  /\ arg' = [arg EXCEPT ![t] = configFilePath]
  /\ UNCHANGED <<running, conf, loops>>

\* The rest of android_main_func: by now the flag may have been set.
StartService(t) ==
  /\ alive /\ service = "starting"
  /\ Spawn(t, IF path THEN handle ELSE 0)
  /\ service' = "started"
  /\ UNCHANGED <<alive, activity, path, handle, file, starts, kills>>

\* A bug: the proxy is stopped with its service and the flag is left as it is.
StopsProxyKeepsFlag ==
  /\ Free /\ service = "started"
  /\ service' = "none" /\ handle' = 0
  /\ pc' = [t \in Threads |-> "idle"]
  /\ UNCHANGED <<alive, activity, path, file, running, arg, conf, loops, starts, kills>>

\* A bug: stopping the service clears the flag, as if it stopped the proxy.
OnDestroyClearsFlag ==
  /\ Free /\ service = "started"
  /\ service' = "none" /\ handle' = 0 /\ running' = FALSE
  /\ UNCHANGED <<alive, activity, path, file, pc, arg, conf, loops, starts, kills>>

\* onDestroy: onStopNativeService calls a callback that does nothing, and
\* unloadNativeService frees the handle and its configFilePath.
OnDestroy ==
  /\ Free /\ service = "started"
  /\ service' = "none" /\ handle' = 0
  /\ UNCHANGED <<alive, activity, path, file, threadVars, starts, kills>>

\* MainActivity.onCreate: copyConfigFile, whose path it does not use, then the
\* native activity; the main thread never comes back from its onStart.
CreateActivity ==
  /\ Free /\ service \in {"none", "started"}
  /\ \/ activity' = "created" /\ UNCHANGED file
     \/ file = "none" /\ file' = "empty" /\ activity' = "copying"
  /\ UNCHANGED <<alive, service, path, handle, threadVars, starts, kills>>

FillActivityConfig ==
  /\ alive /\ activity = "copying"
  /\ activity' = "created" /\ file' \in {"empty", "whole"}
  /\ UNCHANGED <<alive, service, path, handle, threadVars, starts, kills>>

-----------------------------------------------------------------------------
(* The app thread of the activity: android_main.                           *)

AndroidMain ==
  /\ alive /\ activity = "created"
  /\ activity' = IF running THEN "ran" ELSE "starting"
  /\ UNCHANGED <<alive, service, path, handle, file, threadVars, starts, kills>>

StartActivity(t) ==
  /\ alive /\ activity = "starting"
  /\ Spawn(t, 0)
  /\ activity' = "ran"
  /\ UNCHANGED <<alive, service, path, handle, file, starts, kills>>

-----------------------------------------------------------------------------
(* Work threads.                                                           *)

\* work_thread, up to the call of main.
RunMain(t) ==
  /\ alive /\ pc[t] = "spawned"
  /\ running' = TRUE
  /\ pc' = [pc EXCEPT ![t] = "main"]
  /\ UNCHANGED <<alive, mainVars, file, arg, conf, loops, starts, kills>>

\* The thread's configFilePath was freed by unloadNativeService.
Freed(n) == n # 0 /\ n # handle

\* A bug: the failure of LoadFromFile is not looked at.
ParseConfileUnchecked(t) ==
  /\ alive /\ pc[t] = "main"
  /\ pc' = [pc EXCEPT ![t] = "parsed"]
  /\ conf' = [conf EXCEPT ![t] = IF Freed(arg[t]) THEN "freed" ELSE file]
  /\ loops' = NoThread
  /\ UNCHANGED <<alive, mainVars, file, running, arg, starts, kills>>

\* parse_args: proxy_ctx_init, parse_confile.  Without a file main exits.
\* A path that was freed is still what it was, or names no file.
ParseConfile(t) ==
  /\ alive /\ pc[t] = "main"
  /\ \/ /\ file # "none"
        /\ pc' = [pc EXCEPT ![t] = "parsed"]
        /\ conf' = [conf EXCEPT ![t] = file]
        /\ loops' = NoThread
        /\ UNCHANGED <<alive, mainVars, file, running, arg, starts, kills>>
     \/ /\ file = "none" \/ Freed(arg[t])
        /\ Die /\ UNCHANGED kills

\* main: the worker loops and their threads.
StartWorkers(t) ==
  /\ alive /\ pc[t] = "parsed"
  /\ pc' = [pc EXCEPT ![t] = "looping"]
  /\ loops' = t
  /\ UNCHANGED <<alive, mainVars, file, running, arg, conf, starts, kills>>

\* bind: the port may be taken by another program, and is by a listening thread.
PortFree == \A t \in Threads : ~Listening(t)

\* A bug: a thread that cannot listen returns from main.
ListenReturns(t) ==
  /\ alive /\ pc[t] = "looping"
  /\ \/ PortFree /\ pc' = [pc EXCEPT ![t] = "listening"]
     \/ pc' = [pc EXCEPT ![t] = "idle"]
  /\ UNCHANGED <<alive, mainVars, file, running, arg, conf, loops, starts, kills>>

\* accept_thread: hloop_create_tcp_server, or exit(1).
Listen(t) ==
  /\ alive /\ pc[t] = "looping"
  /\ \/ /\ PortFree
        /\ pc' = [pc EXCEPT ![t] = "listening"]
        /\ UNCHANGED <<alive, mainVars, file, running, arg, conf, loops, starts, kills>>
     \/ Die /\ UNCHANGED kills

\* on_accept, get_next_loop: a second main has set worker_loops to NULL.
AcceptWithoutLoops(t) ==
  alive /\ Listening(t) /\ loops = NoThread /\ Die /\ UNCHANGED kills

-----------------------------------------------------------------------------
MainThread ==
  \/ KeepConfig \/ CreateConfig \/ WriteConfig \/ CopyFails
  \/ LoadNative \/ StartNative \/ OnDestroy
  \/ CreateActivity \/ FillActivityConfig
  \/ \E t \in Threads : StartService(t)

AppThread == AndroidMain \/ \E t \in Threads : StartActivity(t)

WorkThread(t) ==
  RunMain(t) \/ ParseConfile(t) \/ StartWorkers(t) \/ Listen(t)

Next ==
  \/ MainThread
  \/ AppThread
  \/ \E t \in Threads : WorkThread(t) \/ AcceptWithoutLoops(t)
  \/ Kill \/ Restart

Spec == Init /\ [][Next]_vars

\* Every thread of a live process is scheduled.
FairSpec == Spec /\ \A t \in Threads : WF_vars(WorkThread(t))

-----------------------------------------------------------------------------
(* Properties.                                                             *)

\* Every variable has its type; a thread has parsed a file that exists.
TypeOK ==
  /\ alive \in BOOLEAN /\ service \in ServiceStates /\ file \in Files
  /\ activity \in ActivityStates
  /\ path \in BOOLEAN /\ handle \in Nat /\ running \in BOOLEAN
  /\ pc \in [Threads -> PcStates] /\ arg \in [Threads -> Nat]
  /\ conf \in [Threads -> Files]
  /\ loops \in Threads \union {NoThread}
  /\ starts \in 0..MaxStarts /\ kills \in 0..MaxKills

\* A listening proxy has parsed a file that was there (parse_confile exits
\* when it cannot load it): it never serves with the compiled defaults alone.
ListensWithFile == \A t \in Threads : Listening(t) => conf[t] \in {"empty", "whole"}

\* g_main_runing is never stale: it is set exactly while some thread is in main,
\* so a start that is skipped because of it is skipped for a proxy that is there.
FlagIsExact == running <=> \E t \in Threads : pc[t] \in InMain

\* A second main clears worker_loops and then sets its own, under the proxy that
\* listens.  A proxy is without its loops only while that second main is still on
\* its way to the port it cannot have: no main leaves them lost and lives on.
LoopsLostToSecondMain ==
  \A t \in Threads : Listening(t) /\ loops # t =>
    \E u \in Threads \ {t} : pc[u] \in {"parsed", "looping"}

\* The proxy is settled: it has the process to itself, and no start of the service
\* or of the activity is between its test of the flag and its new thread.
Settled(t) ==
  /\ Listening(t) /\ \A u \in Threads \ {t} : pc[u] = "idle"
  /\ service # "starting" /\ activity # "starting"

\* A settled proxy stays so, and keeps listening, whatever stops, starts and copies
\* come later: only a kill, or the uncaught error of a library that fails to load,
\* ends it.  The race of the two tests of g_main_runing with its setting is over
\* by then, and no later start opens it again.
SettledStays ==
  [][\A t \in Threads : Settled(t) => Settled(t)' \/ LoadNative \/ Kill]_vars

\* The flag is tested before a thread is made and set by that thread: starts of
\* the service and of the activity in between make a second main.  That never
\* lasts: one of the two cannot listen, and takes the process with it.
NoTwoProxies ==
  (\E t, u \in Threads : t # u /\ pc[t] \in InMain /\ pc[u] \in InMain) ~> ~alive

\* A started service is served by a listening proxy, or the process ends: also
\* after a stop and a second start in one process.
StartedIsServed ==
  service = "started" ~> ((\E t \in Threads : Listening(t)) \/ ~alive)

-----------------------------------------------------------------------------
(* What the comments say and the code does not do: this is broken.          *)

\* "copy tproxyd's config from asserts to file system local / tsproxyd that run
\* native will load these data from this copy" (Config.java:18-19): a proxy that
\* was given the path copyConfigFile returned has loaded the copy of the asset.
ServesCopiedConfig ==
  \A t \in Threads : Listening(t) /\ arg[t] # 0 => conf[t] = "whole"

=============================================================================
