------------------------ MODULE NativeServiceProofs ------------------------
(***************************************************************************)
(* Safety of the start of the proxy, for any number of threads and starts. *)
(***************************************************************************)
EXTENDS NativeService, TLAPS

\* A thread past parse_confile has parsed a file.
ParsedFile ==
  \A t \in Threads : pc[t] \in InMain \ {"main"} => conf[t] \in {"empty", "whole"}

\* One thread at most listens: what bind promises, and the step of Listen takes
\* from it.
OneListener == \A t, u \in Threads : Listening(t) /\ Listening(u) => t = u

\* The inductive invariant.
Safe == ParsedFile /\ FlagIsExact /\ OneListener

LEMMA InitSafe == Init => TypeOK /\ Safe
<1>1. Init => TypeOK
  <2> SUFFICES ASSUME Init PROVE TypeOK OBVIOUS
  <2>1. /\ alive \in BOOLEAN /\ service \in ServiceStates /\ file \in Files
        /\ activity \in ActivityStates
        /\ path \in BOOLEAN /\ handle \in Nat /\ running \in BOOLEAN
    BY DEF Init, ServiceStates, ActivityStates, Files
  <2>2. /\ pc \in [Threads -> PcStates] /\ arg \in [Threads -> Nat]
        /\ conf \in [Threads -> Files] /\ loops \in Threads \union {NoThread}
    BY DEF Init, PcStates, Files
  <2>3. starts \in 0..MaxStarts /\ kills \in 0..MaxKills BY BoundAssumption DEF Init
  <2> QED BY <2>1, <2>2, <2>3 DEF TypeOK
<1>2. Init => Safe
  BY DEF Init, Safe, ParsedFile, FlagIsExact, OneListener, Listening, InMain
<1> QED BY <1>1, <1>2

\* The end of the process leaves nothing but the file and the counters.
LEMMA DieSafe == ASSUME TypeOK, Die, kills' \in 0..MaxKills PROVE TypeOK' /\ Safe'
BY DEF Die, TypeOK, Safe, ParsedFile, FlagIsExact, OneListener, Listening,
       ServiceStates, ActivityStates, Files, PcStates, InMain

\* Steps of the main thread that touch no thread.
LEMMA MainSafe ==
  ASSUME TypeOK, Safe, UNCHANGED threadVars
  PROVE  Safe'
BY DEF threadVars, Safe, ParsedFile, FlagIsExact, OneListener, Listening

\* A new thread, made by either of the two that start one.
LEMMA SpawnSafe ==
  ASSUME TypeOK, Safe, NEW t \in Threads, NEW p \in Nat, Spawn(t, p)
  PROVE  /\ pc' \in [Threads -> PcStates] /\ arg' \in [Threads -> Nat]
         /\ conf' = conf /\ loops' = loops /\ running' = running
         /\ Safe'
<1>1. pc' \in [Threads -> PcStates] BY DEF Spawn, TypeOK, PcStates
<1>2. arg' \in [Threads -> Nat] BY DEF Spawn, TypeOK
<1>3. \A u \in Threads : pc'[u] \in InMain <=> pc[u] \in InMain
  BY DEF Spawn, TypeOK, InMain
<1>4. \A u \in Threads : pc'[u] \in InMain => pc'[u] = pc[u]
  BY DEF Spawn, TypeOK, InMain
<1>5. \A u \in Threads : Listening(u)' => Listening(u)
  BY <1>4 DEF Listening, InMain
<1>6. Safe'
  BY <1>3, <1>4, <1>5 DEF Spawn, Safe, ParsedFile, FlagIsExact, OneListener
<1> QED BY <1>1, <1>2, <1>6 DEF Spawn

LEMMA MainThreadSafe == ASSUME TypeOK, Safe, MainThread PROVE TypeOK' /\ Safe'
<1> USE DEF ServiceStates
<1>1. CASE KeepConfig
  <2>1. TypeOK' BY <1>1, BoundAssumption DEF KeepConfig, Creating, TypeOK, threadVars
  <2>2. Safe' BY <1>1, MainSafe DEF KeepConfig
  <2> QED BY <2>1, <2>2
<1>2. CASE CreateConfig
  <2>1. TypeOK' BY <1>2, BoundAssumption DEF CreateConfig, Creating, TypeOK, threadVars, Files
  <2>2. Safe' BY <1>2, MainSafe DEF CreateConfig
  <2> QED BY <2>1, <2>2
<1>3. CASE WriteConfig
  <2>1. TypeOK' BY <1>3 DEF WriteConfig, TypeOK, threadVars, Files
  <2>2. Safe' BY <1>3, MainSafe DEF WriteConfig
  <2> QED BY <2>1, <2>2
<1>4. CASE CopyFails
  <2>1. starts' \in 0..MaxStarts
    BY <1>4, BoundAssumption DEF CopyFails, Creating, TypeOK
  <2>2. TypeOK' BY <1>4, <2>1 DEF CopyFails, TypeOK, threadVars
  <2>3. Safe' BY <1>4, MainSafe DEF CopyFails
  <2> QED BY <2>2, <2>3
<1>5. CASE LoadNative
  <2>1. CASE Die /\ UNCHANGED kills BY <2>1, DieSafe DEF TypeOK
  <2>2. CASE /\ handle' = starts /\ service' = "loaded"
             /\ UNCHANGED <<alive, activity, path, file, threadVars, starts, kills>>
    <3>1. TypeOK' BY <2>2 DEF TypeOK, threadVars
    <3>2. Safe' BY <2>2, MainSafe
    <3> QED BY <3>1, <3>2
  <2> QED BY <1>5, <2>1, <2>2 DEF LoadNative
<1>6. CASE StartNative
  <2>1. TypeOK' BY <1>6 DEF StartNative, TypeOK, threadVars
  <2>2. Safe' BY <1>6, MainSafe DEF StartNative
  <2> QED BY <2>1, <2>2
<1>7. CASE OnDestroy
  <2>1. TypeOK' BY <1>7 DEF OnDestroy, TypeOK, threadVars
  <2>2. Safe' BY <1>7, MainSafe DEF OnDestroy
  <2> QED BY <2>1, <2>2
<1>8. CASE CreateActivity
  <2>1. TypeOK' BY <1>8 DEF CreateActivity, TypeOK, threadVars, ActivityStates, Files
  <2>2. Safe' BY <1>8, MainSafe DEF CreateActivity
  <2> QED BY <2>1, <2>2
<1>9. CASE FillActivityConfig
  <2>1. TypeOK' BY <1>9 DEF FillActivityConfig, TypeOK, threadVars, ActivityStates, Files
  <2>2. Safe' BY <1>9, MainSafe DEF FillActivityConfig
  <2> QED BY <2>1, <2>2
<1>10. ASSUME NEW t \in Threads, StartService(t) PROVE TypeOK' /\ Safe'
  <2>1. PICK p \in Nat : Spawn(t, p) BY <1>10 DEF StartService, TypeOK
  <2>2. TypeOK' BY <1>10, <2>1, SpawnSafe DEF StartService, TypeOK
  <2> QED BY <2>1, <2>2, SpawnSafe
<1> QED
  BY <1>1, <1>2, <1>3, <1>4, <1>5, <1>6, <1>7, <1>8, <1>9, <1>10 DEF MainThread

LEMMA AppThreadSafe == ASSUME TypeOK, Safe, AppThread PROVE TypeOK' /\ Safe'
<1>1. CASE AndroidMain
  <2>1. TypeOK' BY <1>1 DEF AndroidMain, TypeOK, threadVars, ActivityStates
  <2>2. Safe' BY <1>1, MainSafe DEF AndroidMain
  <2> QED BY <2>1, <2>2
<1>2. ASSUME NEW t \in Threads, StartActivity(t) PROVE TypeOK' /\ Safe'
  <2>1. Spawn(t, 0) BY <1>2 DEF StartActivity
  <2>2. TypeOK' BY <1>2, <2>1, SpawnSafe DEF StartActivity, TypeOK, ActivityStates
  <2> QED BY <2>1, <2>2, SpawnSafe
<1> QED BY <1>1, <1>2 DEF AppThread

\* A work thread that moves to s; the flag is set, as it is in all of InMain.
LEMMA AdvanceSafe ==
  ASSUME TypeOK, Safe, NEW t \in Threads, NEW s \in InMain,
         pc' = [pc EXCEPT ![t] = s], running' = TRUE,
         s = "listening" => PortFree,
         ParsedFile'
  PROVE  Safe'
<1>1. pc'[t] = s BY DEF TypeOK
<1>2. \A u \in Threads : u # t => pc'[u] = pc[u] BY DEF TypeOK
<1>3. FlagIsExact' BY <1>1 DEF FlagIsExact
<1>4. OneListener'
  <2>1. CASE s = "listening"
    <3>1. \A u \in Threads : Listening(u)' => u = t
      BY <1>2, <2>1 DEF PortFree, Listening
    <3> QED BY <3>1 DEF OneListener
  <2>2. CASE s # "listening"
    <3>1. \A u \in Threads : Listening(u)' => Listening(u)
      BY <1>1, <1>2, <2>2 DEF Listening
    <3> QED BY <3>1 DEF Safe, OneListener
  <2> QED BY <2>1, <2>2
<1> QED BY <1>3, <1>4 DEF Safe

LEMMA WorkThreadSafe ==
  ASSUME TypeOK, Safe, NEW t \in Threads, WorkThread(t)
  PROVE  TypeOK' /\ Safe'
<1>1. pc[t] \in InMain => running BY DEF Safe, FlagIsExact
<1>2. CASE RunMain(t)
  <2>1. TypeOK' BY <1>2 DEF RunMain, mainVars, TypeOK, PcStates, InMain
  <2>2. ParsedFile' BY <1>2 DEF RunMain, mainVars, TypeOK, Safe, ParsedFile, InMain
  <2>3. Safe' BY <1>2, <2>2, AdvanceSafe DEF RunMain, InMain
  <2> QED BY <2>1, <2>3
<1>3. CASE ParseConfile(t)
  <2>1. CASE Die /\ UNCHANGED kills BY <2>1, DieSafe DEF TypeOK
  <2>2. CASE /\ pc[t] = "main" /\ file # "none" /\ pc' = [pc EXCEPT ![t] = "parsed"]
             /\ conf' = [conf EXCEPT ![t] = file] /\ loops' = NoThread
             /\ UNCHANGED <<alive, mainVars, file, running, arg, starts, kills>>
    <3>1. TypeOK' BY <2>2 DEF mainVars, TypeOK, PcStates, InMain
    <3>2. ParsedFile' BY <2>2 DEF mainVars, TypeOK, Safe, ParsedFile, InMain, Files
    <3>3. running' = TRUE BY <1>1, <2>2 DEF TypeOK, InMain
    <3>4. Safe' BY <2>2, <3>2, <3>3, AdvanceSafe DEF InMain
    <3> QED BY <3>1, <3>4
  <2> QED BY <1>3, <2>1, <2>2 DEF ParseConfile
<1>4. CASE StartWorkers(t)
  <2>1. TypeOK' BY <1>4 DEF StartWorkers, mainVars, TypeOK, PcStates, InMain
  <2>2. ParsedFile' BY <1>4 DEF StartWorkers, mainVars, TypeOK, Safe, ParsedFile, InMain
  <2>3. running' = TRUE BY <1>1, <1>4 DEF StartWorkers, TypeOK, InMain
  <2>4. Safe' BY <1>4, <2>2, <2>3, AdvanceSafe DEF StartWorkers, InMain
  <2> QED BY <2>1, <2>4
<1>5. CASE Listen(t)
  <2>1. CASE Die /\ UNCHANGED kills BY <2>1, DieSafe DEF TypeOK
  <2>2. CASE /\ pc[t] = "looping" /\ PortFree /\ pc' = [pc EXCEPT ![t] = "listening"]
             /\ UNCHANGED <<alive, mainVars, file, running, arg, conf, loops, starts, kills>>
    <3>1. TypeOK' BY <2>2 DEF mainVars, TypeOK, PcStates, InMain
    <3>2. ParsedFile' BY <2>2 DEF mainVars, TypeOK, Safe, ParsedFile, InMain
    <3>3. running' = TRUE BY <1>1, <2>2 DEF TypeOK, InMain
    <3>4. Safe' BY <2>2, <3>2, <3>3, AdvanceSafe DEF InMain
    <3> QED BY <3>1, <3>4
  <2> QED BY <1>5, <2>1, <2>2 DEF Listen
<1> QED BY <1>2, <1>3, <1>4, <1>5 DEF WorkThread

LEMMA NextSafe == ASSUME TypeOK, Safe, [Next]_vars PROVE TypeOK' /\ Safe'
<1>1. CASE MainThread BY <1>1, MainThreadSafe
<1>2. ASSUME NEW t \in Threads, WorkThread(t) PROVE TypeOK' /\ Safe'
  BY <1>2, WorkThreadSafe
<1>7. CASE AppThread BY <1>7, AppThreadSafe
<1>3. ASSUME NEW t \in Threads, AcceptWithoutLoops(t) PROVE TypeOK' /\ Safe'
  <2>1. kills' \in 0..MaxKills BY <1>3 DEF AcceptWithoutLoops, TypeOK
  <2> QED BY <1>3, <2>1, DieSafe DEF AcceptWithoutLoops
<1>4. CASE Kill
  <2>1. kills' \in 0..MaxKills BY <1>4, BoundAssumption DEF Kill, TypeOK
  <2> QED BY <1>4, <2>1, DieSafe DEF Kill
<1>5. CASE Restart
  <2>1. TypeOK' BY <1>5 DEF Restart, mainVars, threadVars, TypeOK
  <2>2. Safe' BY <1>5, MainSafe DEF Restart
  <2> QED BY <2>1, <2>2
<1>6. CASE UNCHANGED vars
  <2>1. TypeOK' BY <1>6 DEF vars, mainVars, threadVars, TypeOK
  <2>2. Safe' BY <1>6, MainSafe DEF vars
  <2> QED BY <2>1, <2>2
<1> QED BY <1>1, <1>2, <1>3, <1>4, <1>5, <1>6, <1>7 DEF Next

\* Types and the inductive invariant hold in every reachable state: the lemma
\* every theorem below is read off from.
THEOREM Invariance == Spec => [](TypeOK /\ Safe)
<1>1. Init => TypeOK /\ Safe BY InitSafe
<1>2. (TypeOK /\ Safe) /\ [Next]_vars => (TypeOK /\ Safe)' BY NextSafe
<1> QED BY <1>1, <1>2, PTL DEF Spec

\* Every variable keeps its type; no thread takes a file for parsed that was not
\* there.
THEOREM TypeCorrect == Spec => []TypeOK
BY Invariance, PTL

\* g_main_runing is set exactly while a thread is in main, for any number of
\* threads, starts, stops and kills.
THEOREM FlagNeverStale == Spec => []FlagIsExact
<1>1. Safe => FlagIsExact BY DEF Safe
<1> QED BY <1>1, Invariance, PTL

\* A listening proxy has loaded a configuration file.
THEOREM NeverWithoutFile == Spec => []ListensWithFile
<1>1. Safe => ListensWithFile BY DEF Safe, ParsedFile, ListensWithFile, Listening, InMain
<1> QED BY <1>1, Invariance, PTL

-----------------------------------------------------------------------------
(* worker_loops while two threads are in main.                             *)

\* A thread that has made its loops has lost them only to another that came as
\* far: of all mains that got past parse_confile the last one's loops are there.
LoopsTaken ==
  \A t \in Threads : pc[t] \in {"looping", "listening"} /\ loops # t =>
    \E u \in Threads \ {t} : pc[u] \in {"parsed", "looping", "listening"}

LEMMA DieTaken == ASSUME Die PROVE LoopsTaken'
BY DEF Die, LoopsTaken

\* A thread that moves on beyond parse_confile.
LEMMA AdvanceTaken ==
  ASSUME TypeOK, LoopsTaken, NEW t \in Threads,
         NEW s \in {"parsed", "looping", "listening"}, pc' = [pc EXCEPT ![t] = s],
         \/ s = "parsed"
         \/ s = "looping" /\ loops' = t
         \/ s = "listening" /\ pc[t] = "looping" /\ loops' = loops
  PROVE  LoopsTaken'
<1>1. pc'[t] = s /\ \A u \in Threads \ {t} : pc'[u] = pc[u] BY DEF TypeOK
<1> SUFFICES ASSUME NEW u \in Threads, pc'[u] \in {"looping", "listening"}, loops' # u
             PROVE  \E v \in Threads \ {u} : pc'[v] \in {"parsed", "looping", "listening"}
  BY DEF LoopsTaken
<1>2. CASE u # t BY <1>1, <1>2
<1>3. CASE u = t
  <2>1. pc[t] = "looping" /\ loops # t BY <1>1, <1>3
  <2> QED BY <1>1, <1>3, <2>1 DEF LoopsTaken
<1> QED BY <1>2, <1>3

LEMMA TakenStep == ASSUME TypeOK, LoopsTaken, [Next]_vars PROVE LoopsTaken'
<1>1. CASE UNCHANGED <<pc, loops>> BY <1>1 DEF LoopsTaken
<1>2. ASSUME NEW t \in Threads, NEW p, Spawn(t, p) PROVE LoopsTaken'
  <2>1. /\ loops' = loops
        /\ \A u \in Threads : pc[u] # "idle" => pc'[u] = pc[u]
        /\ \A u \in Threads : pc'[u] \in {"looping", "listening"} => pc'[u] = pc[u]
    BY <1>2 DEF Spawn, TypeOK
  <2> QED BY <2>1 DEF LoopsTaken
<1>3. ASSUME NEW t \in Threads, WorkThread(t) PROVE LoopsTaken'
  <2>1. CASE RunMain(t)
    <3>1. /\ loops' = loops
          /\ \A u \in Threads : pc[u] # "spawned" => pc'[u] = pc[u]
          /\ \A u \in Threads : pc'[u] \in {"looping", "listening"} => pc'[u] = pc[u]
      BY <2>1 DEF RunMain, TypeOK
    <3> QED BY <3>1 DEF LoopsTaken
  <2>2. CASE Die BY <2>2, DieTaken
  <2>3. CASE ParseConfile(t) /\ ~Die BY <2>3, AdvanceTaken DEF ParseConfile
  <2>4. CASE StartWorkers(t) BY <2>4, AdvanceTaken DEF StartWorkers
  <2>5. CASE Listen(t) /\ ~Die BY <2>5, AdvanceTaken DEF Listen
  <2> QED BY <1>3, <2>1, <2>2, <2>3, <2>4, <2>5 DEF WorkThread
<1>4. CASE Die BY <1>4, DieTaken
<1> QED BY <1>1, <1>2, <1>3, <1>4
        DEF Next, vars, threadVars, MainThread, AppThread, KeepConfig, CreateConfig, WriteConfig,
            CopyFails, LoadNative, StartNative, OnDestroy, CreateActivity, FillActivityConfig,
            StartService, AndroidMain, StartActivity, AcceptWithoutLoops, Kill, Restart

\* The loops of a listening proxy are missing only while a second main is about
\* to fail at the port.
THEOREM LoopsOnlyLostForAWhile == Spec => []LoopsLostToSecondMain
<1>1. Init => LoopsTaken BY DEF Init, LoopsTaken
<1>2. TypeOK /\ Safe /\ LoopsTaken /\ [Next]_vars => LoopsTaken' BY TakenStep
<1>3. Safe /\ LoopsTaken => LoopsLostToSecondMain
  BY DEF Safe, OneListener, LoopsTaken, LoopsLostToSecondMain, Listening
<1> QED BY <1>1, <1>2, <1>3, Invariance, PTL DEF Spec

-----------------------------------------------------------------------------
(* A settled proxy and the starts and stops that come after it.            *)

\* A step that moves no work thread and ends outside the two starts.
LEMMA SettledUnlessStarted ==
  ASSUME NEW t \in Threads, Settled(t), UNCHANGED pc,
         service' # "starting", activity' # "starting"
  PROVE  Settled(t)'
BY DEF Settled, Listening

LEMMA MainThreadLeavesSettled ==
  ASSUME TypeOK, Safe, NEW t \in Threads, Settled(t), MainThread
  PROVE  Settled(t)' \/ LoadNative
<1> USE DEF threadVars
<1>1. CASE KeepConfig
  BY <1>1, SettledUnlessStarted DEF KeepConfig, Settled
<1>2. CASE CreateConfig
  BY <1>2, SettledUnlessStarted DEF CreateConfig, Settled
<1>3. CASE WriteConfig
  BY <1>3, SettledUnlessStarted DEF WriteConfig, Settled
<1>4. CASE CopyFails
  BY <1>4, SettledUnlessStarted DEF CopyFails, Settled
<1>5. CASE StartNative
  <2>1. running BY DEF Safe, FlagIsExact, Settled, Listening, InMain
  <2> QED BY <1>5, <2>1, SettledUnlessStarted DEF StartNative, Settled
<1>6. CASE OnDestroy
  BY <1>6, SettledUnlessStarted DEF OnDestroy, Settled
<1>7. CASE CreateActivity
  BY <1>7, SettledUnlessStarted DEF CreateActivity, Settled
<1>8. CASE FillActivityConfig
  BY <1>8, SettledUnlessStarted DEF FillActivityConfig, Settled
<1>9. ASSUME NEW u \in Threads, StartService(u) PROVE FALSE
  BY <1>9 DEF StartService, Settled
<1> QED BY <1>1, <1>2, <1>3, <1>4, <1>5, <1>6, <1>7, <1>8, <1>9 DEF MainThread

LEMMA SettledStep ==
  ASSUME TypeOK, Safe, LoopsTaken, NEW t \in Threads, Settled(t), [Next]_vars
  PROVE  Settled(t)' \/ LoadNative \/ Kill
<1>1. CASE MainThread BY <1>1, MainThreadLeavesSettled
<1>2. CASE AndroidMain
  <2>1. running BY DEF Safe, FlagIsExact, Settled, Listening, InMain
  <2> QED BY <1>2, <2>1, SettledUnlessStarted DEF AndroidMain, threadVars, Settled
<1>3. ASSUME NEW u \in Threads, StartActivity(u) PROVE FALSE
  BY <1>3 DEF StartActivity, Settled
<1>4. ASSUME NEW u \in Threads, WorkThread(u) PROVE FALSE
  <2>1. pc[u] \in {"listening", "idle"} BY DEF Settled, Listening
  <2> QED BY <1>4, <2>1 DEF WorkThread, RunMain, ParseConfile, StartWorkers, Listen
<1>5. ASSUME NEW u \in Threads, AcceptWithoutLoops(u) PROVE FALSE
  <2>1. pc[t] = "listening" /\ loops # t
    BY <1>5, ThreadAssumption DEF AcceptWithoutLoops, Settled, Listening
  <2>2. PICK v \in Threads \ {t} : pc[v] \in {"parsed", "looping", "listening"}
    BY <2>1 DEF LoopsTaken
  <2> QED BY <2>2 DEF Settled
<1>6. CASE Restart
  BY <1>6, SettledUnlessStarted DEF Restart, mainVars, threadVars, Settled
<1>7. CASE UNCHANGED vars
  BY <1>7, SettledUnlessStarted DEF vars, mainVars, threadVars, Settled
<1> QED BY <1>1, <1>2, <1>3, <1>4, <1>5, <1>6, <1>7 DEF Next, AppThread

\* No stop or start of the service or of the activity ends a settled proxy, or
\* brings a second main beside it: only a kill or a failed load does.
THEOREM SettledForGood == Spec => SettledStays
<1>1. Init => LoopsTaken BY DEF Init, LoopsTaken
<1>2. TypeOK /\ Safe /\ LoopsTaken /\ [Next]_vars => LoopsTaken' BY TakenStep
<1>3. TypeOK /\ Safe /\ LoopsTaken /\ [Next]_vars =>
        [\A t \in Threads : Settled(t) => Settled(t)' \/ LoadNative \/ Kill]_vars
  BY SettledStep
<1> QED BY <1>1, <1>2, <1>3, Invariance, PTL DEF Spec, SettledStays

=============================================================================
