--------------------------- MODULE AppGlueProofs ---------------------------
(***************************************************************************)
(* Safety of the hand-over between the main thread and the app thread, for *)
(* any windows, input queues and number of callbacks.                      *)
(***************************************************************************)
EXTENDS AppGlue, SequenceTheorems, TLAPS

\* The parts of the type invariant.
BoolTypes ==
  /\ polls \in AppKinds /\ asleep \in BOOLEAN /\ running \in BOOLEAN /\ stateSaved \in BOOLEAN
  /\ destroyed \in BOOLEAN /\ destroyRequested \in BOOLEAN /\ freed \in BOOLEAN
CallTypes ==
  /\ call \in Calls \union {"none"} /\ calls \in 0..MaxCalls
  /\ savedState \in NoState..MaxCalls /\ handed \in NoState..MaxCalls /\ made \in NotAsked..MaxCalls
PipeTypes == pipe \in Seq(Cmds) /\ Len(pipe) <= MaxPipe
HeldTypes ==
  /\ window \in Windows \union {NULL} /\ pendingWindow \in Windows \union {NULL}
  /\ inputQueue \in Queues \union {NULL} /\ pendingInputQueue \in Queues \union {NULL}
  /\ activityState \in StateCmds \union {NoCmd} /\ cmd \in Cmds \union {NoCmd}
  /\ apc \in {"none", "entry", "main", "read", "handle", "handled", "ended"}
  /\ surfaces \subseteq Windows

LEMMA TypeParts == TypeOK <=> BoolTypes /\ CallTypes /\ PipeTypes /\ HeldTypes
BY DEF TypeOK, BoolTypes, CallTypes, PipeTypes, HeldTypes

\* The app thread is in process_cmd exactly while it has a command; it has
\* ended before it is said to be destroyed, and android_app is freed after that.
Phases ==
  /\ cmd # NoCmd <=> apc \in {"read", "handle", "handled"}
  /\ destroyed => apc = "ended"
  /\ freed => apc = "ended" /\ call = "none"

\* DESTROY is only written by android_app_free, which lasts until the app has ended.
Ending ==
  Queued("DESTROY") \/ cmd = "DESTROY" \/ destroyRequested => call = "free" \/ freed

\* The window command the app thread has still to carry out.
TermDue == Queued("TERM_WINDOW") \/ cmd = "TERM_WINDOW"
InitDue == Queued("INIT_WINDOW") \/ (cmd = "INIT_WINDOW" /\ apc = "read")

\* While one is due, android_app_set_window waits.
WindowsDue ==
  /\ call # "set_window" => window = pendingWindow
  /\ TermDue => call = "set_window" /\ window # pendingWindow /\ window # NULL
  /\ InitDue => call = "set_window" /\ window # pendingWindow /\ pendingWindow # NULL
  /\ cmd = "INIT_WINDOW" /\ apc \in {"handle", "handled"} => window # NULL

\* TERM_WINDOW is due before INIT_WINDOW, and each is due once.
WindowOrder ==
  /\ \A i, j \in 1..Len(pipe) :
       /\ pipe[i] = "TERM_WINDOW" /\ pipe[j] = "INIT_WINDOW" => i < j
       /\ pipe[i] = pipe[j] /\ pipe[i] \in {"TERM_WINDOW", "INIT_WINDOW"} => i = j
  /\ cmd = "TERM_WINDOW" => ~Queued("TERM_WINDOW")
  /\ cmd = "INIT_WINDOW" /\ apc = "read" => ~Queued("INIT_WINDOW") /\ ~Queued("TERM_WINDOW")

\* The windows of the activity are the system's.
WindowsLive ==
  /\ HeldWindowIsLive
  /\ pendingWindow # NULL => pendingWindow \in surfaces

InputInSync == call # "set_input" => inputQueue = pendingInputQueue

\* SAVE_STATE is the last command written while onSaveInstanceState waits, and
\* once it has been carried out savedState is what the app stored for it.
Saving ==
  /\ Queued("SAVE_STATE") \/ cmd = "SAVE_STATE" => call = "save_state" /\ ~stateSaved
  /\ \A i \in 1..Len(pipe) : pipe[i] = "SAVE_STATE" => i = Len(pipe)
  /\ cmd = "SAVE_STATE" =>
       /\ pipe = <<>>
       /\ apc \in {"read", "handle"} => savedState = NoState
       /\ apc = "handled" => savedState = made
  /\ call = "save_state" /\ stateSaved => savedState = made /\ pipe = <<>> /\ cmd = NoCmd

\* The inductive invariant.
Safe ==
  /\ Phases /\ Ending /\ WindowsDue /\ WindowOrder /\ WindowsLive /\ InputInSync /\ Saving

-----------------------------------------------------------------------------
LEMMA InitSafe == Init => TypeOK /\ Safe
<1> SUFFICES ASSUME Init PROVE TypeOK /\ Safe OBVIOUS
<1>1. BoolTypes /\ PipeTypes /\ HeldTypes
  <2>1. BoolTypes BY DEF Init, BoolTypes
  <2>2. PipeTypes BY BoundAssumption DEF Init, PipeTypes
  <2>3. HeldTypes BY DEF Init, HeldTypes
  <2> QED BY <2>1, <2>2, <2>3
<1>4. CallTypes BY BoundAssumption DEF Init, CallTypes, NoState, NotAsked
<1>2. Phases /\ Ending /\ InputInSync /\ WindowsLive
  BY DEF Init, Phases, Ending, Queued, InputInSync, WindowsLive, HeldWindowIsLive, NoCmd
<1>3. WindowsDue /\ WindowOrder /\ Saving
  BY DEF Init, WindowsDue, TermDue, InitDue, WindowOrder, Saving, Queued, NoCmd
<1> QED BY <1>1, <1>2, <1>3, <1>4, TypeParts DEF Safe

\* What android_app_write_cmd appends.
LEMMA Written ==
  ASSUME TypeOK, NEW cs \in Seq(Cmds), Write(cs)
  PROVE  /\ pipe' \in Seq(Cmds) /\ Len(pipe') <= MaxPipe
         /\ Len(pipe') = Len(pipe) + Len(cs)
         /\ \A i \in 1..Len(pipe') :
              pipe'[i] = IF i <= Len(pipe) THEN pipe[i] ELSE cs[i - Len(pipe)]
BY ConcatProperties DEF Write, TypeOK

\* The same for one command.
LEMMA WrittenOne ==
  ASSUME TypeOK, NEW c \in Cmds, Write(<<c>>)
  PROVE  /\ pipe' \in Seq(Cmds) /\ Len(pipe') <= MaxPipe
         /\ Len(pipe) \in Nat /\ Len(pipe') = Len(pipe) + 1 /\ pipe'[Len(pipe')] = c
         /\ \A i \in 1..Len(pipe) : pipe'[i] = pipe[i]
<1>1. <<c>> \in Seq(Cmds) OBVIOUS
<1>2. Len(<<c>>) = 1 /\ <<c>>[1] = c OBVIOUS
<1>3. Len(pipe) \in Nat BY DEF TypeOK
<1>4. /\ pipe' \in Seq(Cmds) /\ Len(pipe') <= MaxPipe
      /\ Len(pipe') = Len(pipe) + Len(<<c>>)
      /\ \A i \in 1..Len(pipe') :
           pipe'[i] = IF i <= Len(pipe) THEN pipe[i] ELSE <<c>>[i - Len(pipe)]
  BY <1>1, Written
<1> QED BY <1>2, <1>3, <1>4

\* What android_app_read_cmd takes.
LEMMA Taken ==
  ASSUME TypeOK, ReadCmd
  PROVE  /\ cmd' \in Cmds /\ pipe' \in Seq(Cmds) /\ Len(pipe) \in Nat \ {0}
         /\ Len(pipe') = Len(pipe) - 1 /\ Len(pipe') <= MaxPipe
         /\ cmd' = pipe[1]
         /\ \A i \in 1..Len(pipe') : pipe'[i] = pipe[i + 1]
BY HeadTailProperties, BoundAssumption DEF ReadCmd, TypeOK

\* The callbacks that write one command.
LEMMA Writers ==
  ASSUME TypeOK, OnSaveInstanceState \/ OnOther \/ OnDestroy
                   \/ (\E c \in StateCmds : SetActivityState(c))
                   \/ (\E q \in Queues \union {NULL} : SetInput(q))
  PROVE  \E c \in Cmds \ {"TERM_WINDOW", "INIT_WINDOW"} :
           /\ Write(<<c>>)
           /\ c = "DESTROY" => call' = "free"
           /\ c = "SAVE_STATE" => call' = "save_state"
BY DEF OnSaveInstanceState, OnOther, OnDestroy, SetActivityState, SetInput, Enter,
       Cmds, StateCmds

\* The commands android_app_set_window writes.
LEMMA WindowWrites ==
  ASSUME TypeOK, NEW w \in Windows \union {NULL}, SetWindow(w)
  PROVE  /\ pipe' \in Seq(Cmds) /\ Len(pipe') <= MaxPipe /\ Len(pipe) \in Nat
         /\ Len(pipe') \in Len(pipe)..Len(pipe) + 2
         /\ \A i \in 1..Len(pipe) : pipe'[i] = pipe[i]
         /\ \A i \in 1..Len(pipe') : i > Len(pipe) =>
              \/ pipe'[i] = "TERM_WINDOW" /\ i = Len(pipe) + 1 /\ pendingWindow # NULL
              \/ pipe'[i] = "INIT_WINDOW" /\ i = Len(pipe') /\ w # NULL
<1> DEFINE term == IF pendingWindow # NULL THEN <<"TERM_WINDOW">> ELSE <<>>
           init == IF w # NULL THEN <<"INIT_WINDOW">> ELSE <<>>
           cs == term \o init
<1>1. term \in Seq(Cmds) /\ init \in Seq(Cmds) BY DEF Cmds
<1>2. /\ cs \in Seq(Cmds) /\ Len(cs) = Len(term) + Len(init)
      /\ \A i \in 1..Len(cs) : cs[i] = IF i <= Len(term) THEN term[i] ELSE init[i - Len(term)]
  BY <1>1, ConcatProperties
<1>3. Len(term) \in 0..1 /\ Len(init) \in 0..1 OBVIOUS
<1>4. \A i \in 1..Len(term) : term[i] = "TERM_WINDOW" /\ pendingWindow # NULL OBVIOUS
<1>5. \A i \in 1..Len(init) : init[i] = "INIT_WINDOW" /\ w # NULL OBVIOUS
<1>6. Write(cs) BY DEF SetWindow
<1> HIDE DEF cs, term, init
<1>7. /\ pipe' \in Seq(Cmds) /\ Len(pipe') <= MaxPipe
      /\ Len(pipe') = Len(pipe) + Len(cs)
      /\ \A i \in 1..Len(pipe') :
           pipe'[i] = IF i <= Len(pipe) THEN pipe[i] ELSE cs[i - Len(pipe)]
  BY <1>2, <1>6, Written
<1>8. Len(pipe) \in Nat BY DEF TypeOK
<1>9. ASSUME NEW i \in 1..Len(pipe'), i > Len(pipe)
      PROVE  \/ pipe'[i] = "TERM_WINDOW" /\ i = Len(pipe) + 1 /\ pendingWindow # NULL
             \/ pipe'[i] = "INIT_WINDOW" /\ i = Len(pipe') /\ w # NULL
  <2>1. i - Len(pipe) \in 1..Len(cs) /\ pipe'[i] = cs[i - Len(pipe)]
    BY <1>2, <1>3, <1>7, <1>8, <1>9
  <2>2. CASE i - Len(pipe) <= Len(term)
    BY <1>2, <1>3, <1>4, <1>8, <2>1, <2>2
  <2>3. CASE i - Len(pipe) > Len(term)
    <3>1. i - Len(pipe) - Len(term) \in 1..Len(init)
      BY <1>2, <1>3, <1>8, <2>1, <2>3
    <3>2. cs[i - Len(pipe)] = init[i - Len(pipe) - Len(term)]
      BY <1>2, <1>3, <1>8, <2>1, <2>3
    <3> QED BY <1>2, <1>3, <1>5, <1>7, <1>8, <2>1, <3>1, <3>2
  <2> QED BY <1>3, <1>8, <2>1, <2>2, <2>3
<1> QED BY <1>2, <1>3, <1>7, <1>8, <1>9

\* The command a callback waits for is the only one it puts in the pipe.
LEMMA QueuedByMain ==
  ASSUME TypeOK, MainThread
  PROVE  /\ PipeTypes'
         /\ Queued("DESTROY")' => Queued("DESTROY") \/ call' = "free"
         /\ Queued("SAVE_STATE")' => Queued("SAVE_STATE") \/ call' = "save_state"
         /\ Queued("TERM_WINDOW")' =>
              Queued("TERM_WINDOW") \/ (call' = "set_window" /\ pendingWindow # NULL)
         /\ Queued("INIT_WINDOW")' =>
              Queued("INIT_WINDOW") \/ (call' = "set_window" /\ pendingWindow' # NULL)
<1>1. CASE UNCHANGED pipe BY <1>1 DEF TypeOK, PipeTypes, Queued
<1>2. ASSUME NEW w \in Windows \union {NULL}, SetWindow(w)
      PROVE  /\ PipeTypes'
             /\ \A c \in Cmds : Queued(c)' => Queued(c) \/ c \in {"TERM_WINDOW", "INIT_WINDOW"}
             /\ Queued("TERM_WINDOW")' => Queued("TERM_WINDOW") \/ pendingWindow # NULL
             /\ Queued("INIT_WINDOW")' => Queued("INIT_WINDOW") \/ pendingWindow' # NULL
             /\ call' = "set_window"
  <2>1. call' = "set_window" /\ pendingWindow' = w BY <1>2 DEF SetWindow, Enter
  <2>2. PipeTypes' BY <1>2, WindowWrites DEF PipeTypes
  <2>3. ASSUME NEW c, Queued(c)', ~Queued(c)
        PROVE  \/ c = "TERM_WINDOW" /\ pendingWindow # NULL
               \/ c = "INIT_WINDOW" /\ w # NULL
    BY <1>2, <2>3, WindowWrites DEF Queued
  <2> QED BY <2>1, <2>2, <2>3
<1>3. ASSUME NEW c \in Cmds \ {"TERM_WINDOW", "INIT_WINDOW"}, Write(<<c>>)
      PROVE  PipeTypes' /\ \A d : Queued(d)' => Queued(d) \/ d = c
  <2>1. /\ pipe' \in Seq(Cmds) /\ Len(pipe') <= MaxPipe
        /\ Len(pipe) \in Nat /\ Len(pipe') = Len(pipe) + 1 /\ pipe'[Len(pipe')] = c
        /\ \A i \in 1..Len(pipe) : pipe'[i] = pipe[i]
    BY <1>3, WrittenOne
  <2> QED BY <2>1 DEF PipeTypes, Queued
<1>4. CASE OnCreate \/ Wait \/ Return BY <1>1, <1>4 DEF OnCreate, Wait, Return
<1>5. CASE \E w \in Windows \union {NULL} : w # pendingWindow /\ SetWindow(w)
  BY <1>2, <1>5 DEF Cmds
<1>6. CASE OnSaveInstanceState \/ OnOther \/ OnDestroy
             \/ (\E c \in StateCmds : SetActivityState(c))
             \/ (\E q \in Queues \union {NULL} : SetInput(q))
  <2>1. PICK c \in Cmds \ {"TERM_WINDOW", "INIT_WINDOW"} :
          /\ Write(<<c>>)
          /\ c = "DESTROY" => call' = "free"
          /\ c = "SAVE_STATE" => call' = "save_state"
    BY <1>6, Writers
  <2> QED BY <1>3, <2>1
<1> QED BY <1>4, <1>5, <1>6 DEF MainThread

\* The app thread only takes commands out of the pipe.
LEMMA QueuedByApp ==
  ASSUME TypeOK, AppThread
  PROVE  /\ PipeTypes'
         /\ \A c : Queued(c)' => Queued(c)
         /\ cmd' # cmd /\ cmd' # NoCmd => Queued(cmd') /\ apc' = "read"
<1>1. CASE UNCHANGED pipe /\ cmd' \in {cmd, NoCmd}
  BY <1>1 DEF TypeOK, PipeTypes, Queued
<1>2. CASE ReadCmd
  <2>1. /\ pipe' \in Seq(Cmds) /\ Len(pipe) \in Nat \ {0}
        /\ Len(pipe') = Len(pipe) - 1 /\ Len(pipe') <= MaxPipe
        /\ cmd' = pipe[1]
        /\ \A i \in 1..Len(pipe') : pipe'[i] = pipe[i + 1]
    BY <1>2, Taken
  <2>2. \A c : Queued(c)' => Queued(c)
    <3>1. \A i \in 1..Len(pipe') : i + 1 \in 1..Len(pipe) BY <2>1
    <3> QED BY <2>1, <3>1 DEF Queued
  <2> QED BY <1>2, <2>1, <2>2 DEF PipeTypes, Queued, ReadCmd
<1> QED BY <1>1, <1>2 DEF AppThread, AppEntry, AndroidMainReturns, PreExecCmd, OnAppCmd,
                          PostExecCmd, AppDestroy, appVars

-----------------------------------------------------------------------------
USE DEF flagVars, heldVars, pendingVars, saveVars, appVars, mainVars

LEMMA BoolStep == ASSUME TypeOK, [Next]_vars PROVE BoolTypes'
<1>1. CASE AppThread
  BY <1>1 DEF TypeOK, BoolTypes, Broadcast, AppThread, AppEntry, AndroidMainReturns, ReadCmd, PreExecCmd, PreExec,
         OnAppCmd, PostExecCmd, AppDestroy, MainAlone
<1>2. CASE MainThread
  BY <1>2 DEF TypeOK, BoolTypes, ThenWait, MainThread, Enter, OnCreate, OnSaveInstanceState, OnOther, OnDestroy,
         SetActivityState, SetInput, SetWindow, Wait, Return
<1> QED BY <1>1, <1>2 DEF Next, vars, TypeOK, BoolTypes

LEMMA HeldStep == ASSUME TypeOK, [Next]_vars PROVE HeldTypes'
<1>1. CASE AppThread
  BY <1>1, Taken DEF TypeOK, HeldTypes, AppThread, AppEntry, AndroidMainReturns, ReadCmd, PreExecCmd, PreExec,
         OnAppCmd, PostExecCmd, AppDestroy, MainAlone
<1>2. CASE MainThread
  BY <1>2 DEF TypeOK, HeldTypes, MainThread, Enter, OnCreate, OnSaveInstanceState, OnOther, OnDestroy,
         SetActivityState, SetInput, SetWindow, Wait, Return
<1> QED BY <1>1, <1>2 DEF Next, vars, TypeOK, HeldTypes

LEMMA CallStep == ASSUME TypeOK, [Next]_vars PROVE CallTypes'
<1>1. CASE AppThread
  <2>1. UNCHANGED <<call, calls, handed>>
    BY <1>1 DEF AppThread, AppEntry, AndroidMainReturns, ReadCmd, PreExecCmd, PreExec,
         OnAppCmd, PostExecCmd, AppDestroy, MainAlone
  <2>2. savedState' \in {savedState, NoState, calls} /\ made' \in {made, NoState, calls}
    BY <1>1 DEF AppThread, AppEntry, AndroidMainReturns, ReadCmd, PreExecCmd, PreExec,
         OnAppCmd, PostExecCmd, AppDestroy, MainAlone
  <2> QED BY <2>1, <2>2, BoundAssumption DEF TypeOK, CallTypes, NoState, NotAsked
<1>2. CASE MainThread
  <2>1. call' \in Calls \union {"none"}
    BY <1>2 DEF TypeOK, Calls, MainThread, Enter, OnCreate, OnSaveInstanceState, OnOther, OnDestroy,
         SetActivityState, SetInput, SetWindow, Wait, Return
  <2>2. calls' = calls \/ (calls' = calls + 1 /\ calls < MaxCalls)
    BY <1>2 DEF MainThread, Enter, OnCreate, OnSaveInstanceState, OnOther, OnDestroy,
         SetActivityState, SetInput, SetWindow, Wait, Return
  <2>3. /\ savedState' \in {savedState, NoState} /\ handed' \in {handed, savedState}
        /\ made' \in {made, NotAsked}
    BY <1>2 DEF MainThread, Enter, OnCreate, OnSaveInstanceState, OnOther, OnDestroy,
         SetActivityState, SetInput, SetWindow, Wait, Return
  <2> QED BY <2>1, <2>2, <2>3, BoundAssumption DEF TypeOK, CallTypes, NoState, NotAsked
<1> QED BY <1>1, <1>2 DEF Next, vars, TypeOK, CallTypes

LEMMA TypeStep == ASSUME TypeOK, [Next]_vars PROVE TypeOK'
<1>1. PipeTypes'
  BY QueuedByApp, QueuedByMain DEF Next, vars, TypeOK, PipeTypes
<1> QED BY <1>1, BoolStep, CallStep, HeldStep
       DEF TypeOK, BoolTypes, CallTypes, PipeTypes, HeldTypes

\* What a callback that returns has waited for.
LEMMA Returned ==
  ASSUME Return
  PROVE  /\ call = "set_input" => inputQueue = pendingInputQueue
         /\ call = "set_window" => window = pendingWindow
         /\ call = "save_state" => stateSaved
         /\ call = "free" => destroyed
BY DEF Return, Done, StateCmds

LEMMA PhasesStep == ASSUME TypeOK, Safe, [Next]_vars PROVE Phases'
<1>1. CASE AppThread
  BY <1>1, Taken DEF TypeOK, Safe, Phases, NoCmd, Cmds, StateCmds, AppThread, AppEntry, AndroidMainReturns, ReadCmd, PreExecCmd, PreExec,
         OnAppCmd, PostExecCmd, AppDestroy, MainAlone
<1>2. CASE MainThread
  <2>1. /\ UNCHANGED <<cmd, destroyed>>
        /\ apc' = apc \/ (apc = "none" /\ apc' = "entry")
    BY <1>2 DEF MainThread, Enter, OnCreate, OnSaveInstanceState, OnOther, OnDestroy,
         SetActivityState, SetInput, SetWindow, Wait, Return
  <2>2. freed' => (freed \/ destroyed) /\ call' = "none"
    BY <1>2, Returned DEF Safe, Phases, MainThread, Enter, OnCreate, OnSaveInstanceState, OnOther, OnDestroy,
         SetActivityState, SetInput, SetWindow, Wait, Return
  <2> QED BY <2>1, <2>2 DEF Safe, Phases
<1> QED BY <1>1, <1>2 DEF Next, vars, Safe, Phases

LEMMA EndingStep == ASSUME TypeOK, Safe, [Next]_vars PROVE Ending'
<1>1. CASE AppThread
  <2>1. UNCHANGED <<call, freed>> BY <1>1 DEF AppThread, AppEntry, AndroidMainReturns, ReadCmd, PreExecCmd, PreExec,
         OnAppCmd, PostExecCmd, AppDestroy, MainAlone
  <2>2. destroyRequested' => destroyRequested \/ cmd = "DESTROY"
    BY <1>1 DEF TypeOK, AppThread, AppEntry, AndroidMainReturns, ReadCmd, PreExecCmd, PreExec,
         OnAppCmd, PostExecCmd, AppDestroy, MainAlone
  <2> QED BY <1>1, <2>1, <2>2, QueuedByApp DEF Safe, Ending, NoCmd
<1>2. CASE MainThread
  <2>1. UNCHANGED <<cmd, destroyRequested>> BY <1>2 DEF MainThread, Enter, OnCreate, OnSaveInstanceState, OnOther, OnDestroy,
         SetActivityState, SetInput, SetWindow, Wait, Return
  <2>2. (call = "free" => call' = "free" \/ freed') /\ (freed => freed')
    BY <1>2 DEF Safe, Phases, MainThread, Enter, OnCreate, OnSaveInstanceState, OnOther, OnDestroy,
         SetActivityState, SetInput, SetWindow, Wait, Return
  <2> QED BY <1>2, <2>1, <2>2, QueuedByMain DEF Safe, Ending
<1> QED BY <1>1, <1>2 DEF Next, vars, Safe, Ending, Queued

LEMMA InputStep == ASSUME TypeOK, Safe, [Next]_vars PROVE InputInSync'
<1>1. CASE AppThread
  BY <1>1 DEF Safe, InputInSync, AppThread, AppEntry, AndroidMainReturns, ReadCmd, PreExecCmd, PreExec,
         OnAppCmd, PostExecCmd, AppDestroy, MainAlone
<1>2. CASE Return
  BY <1>2, Returned DEF Safe, InputInSync, Return
<1>3. CASE MainThread /\ ~Return
  BY <1>3 DEF Safe, InputInSync, MainThread, Enter, OnCreate, OnSaveInstanceState, OnOther, OnDestroy,
         SetActivityState, SetInput, SetWindow, Wait, Return
<1> QED BY <1>1, <1>2, <1>3 DEF Next, vars, Safe, InputInSync

LEMMA LiveStep == ASSUME TypeOK, Safe, [Next]_vars PROVE WindowsLive'
<1>1. CASE AppThread
  BY <1>1 DEF Safe, WindowsLive, HeldWindowIsLive, AppThread, AppEntry, AndroidMainReturns, ReadCmd, PreExecCmd, PreExec,
         OnAppCmd, PostExecCmd, AppDestroy, MainAlone
<1>2. CASE Return
  BY <1>2, Returned DEF Safe, WindowsLive, HeldWindowIsLive, WindowsDue, Return
<1>3. CASE MainThread /\ ~Return
  BY <1>3 DEF Safe, WindowsLive, HeldWindowIsLive, MainThread, Enter, OnCreate, OnSaveInstanceState, OnOther, OnDestroy,
         SetActivityState, SetInput, SetWindow, Wait, Return
<1> QED BY <1>1, <1>2, <1>3 DEF Next, vars, Safe, WindowsLive, HeldWindowIsLive

LEMMA DueStep == ASSUME TypeOK, Safe, [Next]_vars PROVE WindowsDue'
<1>1. CASE AppThread
  <2>1. UNCHANGED <<call, pendingWindow>> BY <1>1 DEF AppThread, AppEntry, AndroidMainReturns, ReadCmd, PreExecCmd, PreExec,
         OnAppCmd, PostExecCmd, AppDestroy, MainAlone
  <2>2. Queued("TERM_WINDOW")' => Queued("TERM_WINDOW") BY <1>1, QueuedByApp
  <2>3. Queued("INIT_WINDOW")' => Queued("INIT_WINDOW") BY <1>1, QueuedByApp
  <2>4. CASE PreExecCmd
    BY <2>1, <2>2, <2>3, <2>4
    DEF TypeOK, Safe, WindowsDue, WindowOrder, TermDue, InitDue, PreExecCmd, PreExec, Cmds, StateCmds
  <2>5. CASE PostExecCmd
    BY <2>1, <2>2, <2>3, <2>5
    DEF Safe, Phases, WindowsDue, WindowOrder, TermDue, InitDue, PostExecCmd, NoCmd
  <2>6. CASE ReadCmd
    BY <2>1, <2>2, <2>3, <2>6, <1>1, QueuedByApp
    DEF Safe, Phases, WindowsDue, TermDue, InitDue, ReadCmd, NoCmd
  <2>7. CASE UNCHANGED <<cmd, window, pipe>> /\ (apc' = "read" => apc = "read")
             /\ (apc' \in {"handle", "handled"} => apc \in {"handle", "handled"})
    BY <2>1, <2>2, <2>3, <2>7 DEF Safe, WindowsDue, TermDue, InitDue
  <2> QED BY <1>1, <2>4, <2>5, <2>6, <2>7
          DEF AppThread, AppEntry, AndroidMainReturns, OnAppCmd, AppDestroy
<1>2. CASE MainThread
  <2>1. UNCHANGED <<cmd, window>> /\ (apc' = apc \/ (apc = "none" /\ apc' = "entry"))
    BY <1>2 DEF MainThread, Enter, OnCreate, OnSaveInstanceState, OnOther, OnDestroy,
         SetActivityState, SetInput, SetWindow, Wait, Return
  <2>2. CASE Return
    BY <2>1, <2>2, <1>2, Returned, QueuedByMain
    DEF Safe, WindowsDue, TermDue, InitDue, Return
  <2>3. CASE Wait
    BY <2>1, <2>3 DEF Safe, WindowsDue, TermDue, InitDue, Queued, Wait
  <2>4. ASSUME NEW w \in Windows \union {NULL}, w # pendingWindow, SetWindow(w)
        PROVE  WindowsDue'
    BY <2>1, <2>4, <1>2, QueuedByMain DEF Safe, WindowsDue, TermDue, InitDue, SetWindow, Enter
  <2>5. CASE call = "none" /\ call' # "set_window" /\ UNCHANGED pendingWindow
    BY <2>1, <2>5, <1>2, QueuedByMain DEF Safe, WindowsDue, TermDue, InitDue
  <2> QED BY <1>2, <2>2, <2>3, <2>4, <2>5
          DEF MainThread, Enter, OnCreate, OnSaveInstanceState, OnOther, OnDestroy,
              SetActivityState, SetInput, StateCmds
<1> QED BY <1>1, <1>2 DEF Next, vars, Safe, WindowsDue, TermDue, InitDue, Queued

LEMMA OrderStep == ASSUME TypeOK, Safe, [Next]_vars PROVE WindowOrder'
<1>1. CASE ReadCmd
  <2>1. /\ Len(pipe) \in Nat \ {0} /\ Len(pipe') = Len(pipe) - 1 /\ cmd' = pipe[1]
        /\ \A i \in 1..Len(pipe') : pipe'[i] = pipe[i + 1]
    BY <1>1, Taken
  <2>2. \A i \in 1..Len(pipe') : i + 1 \in 1..Len(pipe) /\ i + 1 # 1 BY <2>1
  <2>3. 1 \in 1..Len(pipe) BY <2>1
  <2>4. \A i, j \in 1..Len(pipe') :
          /\ pipe'[i] = "TERM_WINDOW" /\ pipe'[j] = "INIT_WINDOW" => i < j
          /\ pipe'[i] = pipe'[j] /\ pipe'[i] \in {"TERM_WINDOW", "INIT_WINDOW"} => i = j
    BY <2>1, <2>2 DEF Safe, WindowOrder
  <2>5. \A i, j \in 1..Len(pipe) :
          /\ pipe[i] = "TERM_WINDOW" /\ pipe[j] = "INIT_WINDOW" => i < j
          /\ pipe[i] = pipe[j] /\ pipe[i] \in {"TERM_WINDOW", "INIT_WINDOW"} => i = j
    BY DEF Safe, WindowOrder
  <2>6. \A j \in 1..Len(pipe) : ~(j < 1) BY <2>1
  <2>7. cmd' = "TERM_WINDOW" => \A i \in 1..Len(pipe') : pipe'[i] # "TERM_WINDOW"
    BY <2>1, <2>2, <2>3, <2>5
  <2>8. cmd' = "INIT_WINDOW" =>
          \A i \in 1..Len(pipe') : pipe'[i] # "INIT_WINDOW" /\ pipe'[i] # "TERM_WINDOW"
    BY <2>1, <2>2, <2>3, <2>5, <2>6
  <2> QED BY <2>4, <2>7, <2>8 DEF WindowOrder, Queued
<1>2. ASSUME NEW w \in Windows \union {NULL}, SetWindow(w)
      PROVE  WindowOrder'
  <2>1. call = "none" /\ UNCHANGED <<cmd, apc>> BY <1>2 DEF SetWindow, Enter
  <2>2. /\ \A i \in 1..Len(pipe) : pipe[i] \notin {"TERM_WINDOW", "INIT_WINDOW"}
        /\ cmd # "TERM_WINDOW" /\ ~(cmd = "INIT_WINDOW" /\ apc = "read")
    BY <2>1 DEF Safe, WindowsDue, TermDue, InitDue, Queued
  <2>3. /\ Len(pipe) \in Nat /\ Len(pipe') \in Len(pipe)..Len(pipe) + 2
        /\ \A i \in 1..Len(pipe) : pipe'[i] = pipe[i]
        /\ \A i \in 1..Len(pipe') : i > Len(pipe) =>
             \/ pipe'[i] = "TERM_WINDOW" /\ i = Len(pipe) + 1
             \/ pipe'[i] = "INIT_WINDOW" /\ i = Len(pipe')
    BY <1>2, WindowWrites
  <2>4. \A i \in 1..Len(pipe') :
          /\ pipe'[i] = "TERM_WINDOW" => i = Len(pipe) + 1
          /\ pipe'[i] = "INIT_WINDOW" => i = Len(pipe')
    BY <2>2, <2>3
  <2>5. \A i \in 1..Len(pipe') : pipe'[i] = "TERM_WINDOW" => i > Len(pipe)
    BY <2>2, <2>3
  <2>6. \A i, j \in 1..Len(pipe') :
          pipe'[i] = "TERM_WINDOW" /\ pipe'[j] = "INIT_WINDOW" => i < j
    BY <2>3, <2>4
  <2> QED BY <2>1, <2>2, <2>4, <2>6 DEF WindowOrder
<1>3. CASE UNCHANGED pipe /\ (cmd' = cmd \/ cmd' = NoCmd) /\ (apc' = "read" => apc = "read")
  BY <1>3 DEF Safe, WindowOrder, Queued, NoCmd
<1>4. CASE MainThread /\ call = "none" /\ call' # "set_window" /\ cmd' = cmd
  <2>1. ~Queued("TERM_WINDOW")' /\ ~Queued("INIT_WINDOW")'
    BY <1>4, QueuedByMain DEF Safe, WindowsDue, TermDue, InitDue
  <2> QED BY <2>1 DEF WindowOrder, Queued
<1> QED BY <1>1, <1>2, <1>3, <1>4
     DEF Next, vars, MainThread, AppThread, AppEntry, AndroidMainReturns, PreExecCmd, OnAppCmd,
         PostExecCmd, AppDestroy, Enter, OnCreate, OnSaveInstanceState, OnOther, OnDestroy,
         SetActivityState, SetInput, Wait, Return, StateCmds

LEMMA SavingStep == ASSUME TypeOK, Safe, [Next]_vars PROVE Saving'
<1>1. CASE ReadCmd
  <2>1. /\ Len(pipe) \in Nat \ {0} /\ Len(pipe') = Len(pipe) - 1 /\ cmd' = pipe[1]
        /\ pipe' \in Seq(Cmds)
        /\ \A i \in 1..Len(pipe') : pipe'[i] = pipe[i + 1]
    BY <1>1, Taken
  <2>2. \A i \in 1..Len(pipe') : i + 1 \in 1..Len(pipe) BY <2>1
  <2>3. 1 \in 1..Len(pipe) BY <2>1
  <2>4. \A i \in 1..Len(pipe') : pipe'[i] = "SAVE_STATE" => i = Len(pipe')
    BY <2>1, <2>2 DEF Safe, Saving
  <2>5. cmd' = "SAVE_STATE" => pipe' = <<>>
    <3>1. cmd' = "SAVE_STATE" => 1 = Len(pipe) BY <2>1, <2>3 DEF Safe, Saving
    <3>2. Len(pipe') = 0 => pipe' = <<>> BY <2>1, EmptySeq
    <3> QED BY <2>1, <3>1, <3>2
  <2>6. cmd' = "SAVE_STATE" \/ Queued("SAVE_STATE")' => Queued("SAVE_STATE")
    BY <2>1, <2>2, <2>3 DEF Queued
  <2>7. pipe # <<>> /\ UNCHANGED <<call, stateSaved>> /\ apc' = "read"
        /\ (cmd' = "SAVE_STATE" => savedState' = NoState)
    BY <1>1 DEF ReadCmd, MainAlone
  <2> QED BY <2>4, <2>5, <2>6, <2>7 DEF Safe, Saving
<1>2. CASE OnSaveInstanceState
  <2>1. call = "none" /\ Write(<<"SAVE_STATE">>) /\ call' = "save_state" /\ stateSaved' = FALSE
        /\ UNCHANGED cmd
    BY <1>2 DEF OnSaveInstanceState, Enter
  <2>2. /\ Len(pipe) \in Nat /\ Len(pipe') = Len(pipe) + 1
        /\ \A i \in 1..Len(pipe) : pipe'[i] = pipe[i]
    BY <2>1, WrittenOne DEF Cmds
  <2>3. \A i \in 1..Len(pipe) : pipe[i] # "SAVE_STATE" BY <2>1 DEF Safe, Saving, Queued
  <2>4. \A i \in 1..Len(pipe') : pipe'[i] = "SAVE_STATE" => i = Len(pipe') BY <2>2, <2>3
  <2>5. cmd' # "SAVE_STATE" BY <2>1 DEF Safe, Saving
  <2> QED BY <2>1, <2>4, <2>5 DEF Saving
<1>3. CASE MainThread /\ call = "none" /\ call' # "save_state" /\ cmd' = cmd
  <2>1. ~Queued("SAVE_STATE")' /\ cmd' # "SAVE_STATE"
    BY <1>3, QueuedByMain DEF Safe, Saving
  <2> QED BY <1>3, <2>1 DEF Saving, Queued
<1>4. CASE Return
  BY <1>4, Returned DEF Safe, Saving, Queued, Return
<1>5. CASE PostExecCmd
  <2>1. cmd = "SAVE_STATE" => ~Queued("SAVE_STATE") /\ pipe = <<>> /\ savedState = made
    BY <1>5 DEF Safe, Saving, Queued, PostExecCmd
  <2>2. cmd # NoCmd /\ cmd' = NoCmd /\ UNCHANGED <<pipe, made, call>>
        /\ stateSaved' = (stateSaved \/ cmd = "SAVE_STATE")
        /\ (cmd = "SAVE_STATE" => savedState' = savedState)
    BY <1>5 DEF Safe, Phases, PostExecCmd, MainAlone, NoCmd
  <2>3. Queued("SAVE_STATE")' <=> Queued("SAVE_STATE") BY <2>2 DEF Queued
  <2> QED BY <2>1, <2>2, <2>3 DEF Safe, Saving, NoCmd
<1>6. CASE OnAppCmd
  BY <1>6 DEF Safe, Phases, Saving, Queued, OnAppCmd, MainAlone, NoCmd
<1>7. CASE AppDestroy
  BY <1>7 DEF Safe, Phases, Ending, Saving, Queued, AppDestroy, MainAlone, NoCmd
<1>8. CASE UNCHANGED <<call, stateSaved, pipe, savedState, made, cmd>>
           /\ (apc' = "handled" => apc = "handled")
           /\ (apc' \in {"read", "handle"} => apc \in {"read", "handle"})
  BY <1>8 DEF Safe, Saving, Queued
<1> QED BY <1>1, <1>2, <1>3, <1>4, <1>5, <1>6, <1>7, <1>8
     DEF Next, vars, MainThread, AppThread, AppEntry, AndroidMainReturns, PreExecCmd, PreExec,
         Enter, OnCreate, OnOther, OnDestroy, SetActivityState, SetInput, SetWindow, Wait,
         MainAlone, StateCmds

-----------------------------------------------------------------------------
\* The invariant the theorems below rest on.
THEOREM Invariance == Spec => [](TypeOK /\ Safe)
<1>1. TypeOK /\ Safe /\ [Next]_vars => TypeOK' /\ Safe'
  BY TypeStep, PhasesStep, EndingStep, DueStep, OrderStep, LiveStep, InputStep, SavingStep
  DEF Safe
<1> QED BY InitSafe, <1>1, PTL DEF Spec

\* Every variable keeps its type.
THEOREM TypeCorrect == Spec => []TypeOK
BY Invariance, PTL

\* A window the app holds is one the system still keeps for the activity: the
\* hand-over in android_app_set_window never leaves the app with a dead window.
THEOREM WindowsStayLive == Spec => []HeldWindowIsLive
<1>1. TypeOK /\ Safe => HeldWindowIsLive
  BY DEF Safe, WindowsLive
<1> QED BY <1>1, Invariance, PTL

\* The handler of INIT_WINDOW and of TERM_WINDOW has a window: TERM_WINDOW is
\* carried out after the app has handled it (android_app_post_exec_cmd).
THEOREM HandlersHaveWindows == Spec => []HandlerSeesWindow
<1>1. TypeOK /\ Safe => HandlerSeesWindow
  BY DEF Safe, WindowsDue, TermDue, HandlerSeesWindow
<1> QED BY <1>1, Invariance, PTL

\* Between two callbacks the app has what the system gave it last.
THEOREM InSync == Spec => []InSyncBetweenCallbacks
<1>1. TypeOK /\ Safe => InSyncBetweenCallbacks
  BY DEF Safe, WindowsDue, InputInSync, InSyncBetweenCallbacks
<1> QED BY <1>1, Invariance, PTL

\* android_app is freed only after the app thread is done with it.
THEOREM FreedAfterUse == Spec => []AppDoneBeforeFree
<1>1. TypeOK /\ Safe => AppDoneBeforeFree BY DEF Safe, Phases, AppDoneBeforeFree
<1> QED BY <1>1, Invariance, PTL

\* onSaveInstanceState hands out the state stored for it, and no older one.
THEOREM SavedStateIsFresh == Spec => SavesWhatWasMade
<1>1. TypeOK /\ Safe /\ [Next]_vars => (call = "save_state" /\ call' = "none" => handed' = made)
  <2> SUFFICES ASSUME TypeOK, Safe, [Next]_vars, call = "save_state", call' = "none"
               PROVE  handed' = made
    OBVIOUS
  <2>1. Return
    BY DEF Next, vars, MainThread, AppThread, AppEntry, AndroidMainReturns, ReadCmd, PreExecCmd,
           OnAppCmd, PostExecCmd, AppDestroy, Enter, OnCreate, OnSaveInstanceState, OnOther,
           OnDestroy, SetActivityState, SetInput, SetWindow, Wait, MainAlone
  <2> QED BY <2>1, Returned DEF Return, Safe, Saving
<1> QED BY <1>1, Invariance, PTL DEF Spec, SavesWhatWasMade

-----------------------------------------------------------------------------
(* No sleep is left unanswered.                                            *)

\* State commands that are still to be seen set the state that is already there,
\* save for the last, which is the one android_app_set_activity_state waits for.
StateOrder ==
  /\ \A i \in 1..Len(pipe) : pipe[i] \in StateCmds =>
       pipe[i] = activityState \/ (pipe[i] = call /\ i = Len(pipe))
  /\ cmd \in StateCmds /\ apc = "read" =>
       cmd = activityState \/ (cmd = call /\ pipe = <<>>)

AsleepWaits == asleep => call # "none" /\ ~Done(call)

WaitIsDue == polls /\ call # "none" /\ ~Done(call) => Due(call)

\* An app that polls ends in android_app_destroy only, when it was asked to.
EndsWhenAsked ==
  /\ polls /\ apc = "ended" => destroyed
  /\ destroyed => destroyRequested

\* The inductive invariant, next to TypeOK and Safe.
Answering == StateOrder /\ AsleepWaits /\ WaitIsDue /\ EndsWhenAsked

LEMMA InitAnswering == Init => Answering
BY DEF Init, Answering, StateOrder, AsleepWaits, WaitIsDue, EndsWhenAsked, NoCmd, StateCmds

\* The callback the main thread is in, one by one.
LEMMA DoneOf ==
  /\ Done("create") <=> running
  /\ Done("set_input") <=> inputQueue = pendingInputQueue
  /\ Done("set_window") <=> window = pendingWindow
  /\ Done("save_state") <=> stateSaved
  /\ Done("free") <=> destroyed
  /\ \A c \in StateCmds : Done(c) <=> activityState = c
BY DEF Done, StateCmds

LEMMA DueOf ==
  /\ Due("create") <=> apc = "entry"
  /\ Due("set_input") <=> Unseen("INPUT_CHANGED")
  /\ Due("set_window") <=> IF pendingWindow # NULL THEN Unseen("INIT_WINDOW")
                           ELSE Queued("TERM_WINDOW") \/ cmd = "TERM_WINDOW"
  /\ Due("save_state") <=> Queued("SAVE_STATE") \/ cmd = "SAVE_STATE"
  /\ Due("free") <=> Unseen("DESTROY") \/ (destroyRequested /\ apc # "ended")
  /\ \A c \in StateCmds : Due(c) <=> Unseen(c)
BY DEF Due, StateCmds

LEMMA DoneAfter ==
  /\ Done("create")' <=> running'
  /\ Done("set_input")' <=> inputQueue' = pendingInputQueue'
  /\ Done("set_window")' <=> window' = pendingWindow'
  /\ Done("save_state")' <=> stateSaved'
  /\ Done("free")' <=> destroyed'
  /\ \A c \in StateCmds : Done(c)' <=> activityState' = c
BY DEF Done, StateCmds

LEMMA DueAfter ==
  /\ Due("create")' <=> apc' = "entry"
  /\ Due("set_input")' <=> Unseen("INPUT_CHANGED")'
  /\ Due("set_window")' <=> IF pendingWindow' # NULL THEN Unseen("INIT_WINDOW")'
                            ELSE Queued("TERM_WINDOW")' \/ cmd' = "TERM_WINDOW"
  /\ Due("save_state")' <=> Queued("SAVE_STATE")' \/ cmd' = "SAVE_STATE"
  /\ Due("free")' <=> Unseen("DESTROY")' \/ (destroyRequested' /\ apc' # "ended")
  /\ \A c \in StateCmds : Due(c)' <=> Unseen(c)'
BY DEF Due, StateCmds

\* What is in the pipe stays there until it is read.
LEMMA StaysQueued ==
  ASSUME TypeOK, [Next]_vars, NEW c \in Cmds
  PROVE  Queued(c) => Queued(c)' \/ (ReadCmd /\ cmd' = c)
<1>1. CASE UNCHANGED pipe BY <1>1 DEF Queued
<1>2. CASE ReadCmd
  <2>1. /\ Len(pipe) \in Nat \ {0} /\ Len(pipe') = Len(pipe) - 1 /\ cmd' = pipe[1]
        /\ \A i \in 1..Len(pipe') : pipe'[i] = pipe[i + 1]
    BY <1>2, Taken
  <2>2. ASSUME NEW i \in 1..Len(pipe), pipe[i] = c, i # 1 PROVE Queued(c)'
    <3>1. i - 1 \in 1..Len(pipe') /\ pipe'[i - 1] = c BY <2>1, <2>2
    <3> QED BY <3>1 DEF Queued
  <2> QED BY <1>2, <2>1, <2>2 DEF Queued
<1>3. ASSUME NEW d \in Cmds, Write(<<d>>) PROVE Queued(c) => Queued(c)'
  BY <1>3, WrittenOne DEF Queued
<1>4. ASSUME NEW w \in Windows \union {NULL}, SetWindow(w) PROVE Queued(c) => Queued(c)'
  BY <1>4, WindowWrites DEF Queued
<1>5. CASE OnSaveInstanceState \/ OnOther \/ OnDestroy
             \/ (\E d \in StateCmds : SetActivityState(d))
             \/ (\E q \in Queues \union {NULL} : SetInput(q))
  BY <1>3, <1>5, Writers
<1> QED BY <1>1, <1>2, <1>4, <1>5
        DEF Next, vars, MainThread, AppThread, OnCreate, Wait, Return, AppEntry,
            AndroidMainReturns, PreExecCmd, OnAppCmd, PostExecCmd, AppDestroy

\* A broadcast ends the sleep, and a step without one leaves the condition as it is.
LEMMA AsleepStep == ASSUME TypeOK, AsleepWaits, [Next]_vars PROVE AsleepWaits'
<1>1. CASE AppThread
  <2>1. UNCHANGED <<call, pendingWindow, pendingInputQueue>>
    BY <1>1 DEF AppThread, AppEntry, AndroidMainReturns, ReadCmd, PreExecCmd, OnAppCmd,
                PostExecCmd, AppDestroy, MainAlone
  <2>2. \/ asleep' = FALSE
        \/ asleep' = asleep /\ UNCHANGED <<running, inputQueue, window, stateSaved, destroyed,
                                          activityState>>
    BY <1>1 DEF AppThread, AppEntry, AndroidMainReturns, ReadCmd, PreExecCmd, PreExec, OnAppCmd,
                PostExecCmd, AppDestroy, Broadcast, Wakes, TypeOK
  <2> QED BY <2>1, <2>2 DEF AsleepWaits, Done
<1>2. CASE UNCHANGED vars BY <1>2 DEF vars, AsleepWaits, Done
<1>3. CASE MainThread
  <2>1. CASE ThenWait /\ call' # "none" BY <2>1 DEF ThenWait, AsleepWaits
  <2>2. CASE Wait BY <2>2 DEF Wait, AsleepWaits, Done
  <2>3. CASE UNCHANGED asleep /\ (call = "none" \/ ~asleep)
    BY <2>3 DEF AsleepWaits
  <2> QED BY <1>3, <2>1, <2>2, <2>3
          DEF MainThread, OnCreate, OnSaveInstanceState, OnOther, OnDestroy, SetActivityState,
              SetInput, SetWindow, Return, Enter, StateCmds
<1> QED BY <1>1, <1>2, <1>3 DEF Next

LEMMA EndsStep == ASSUME TypeOK, Safe, EndsWhenAsked, [Next]_vars PROVE EndsWhenAsked'
<1>1. CASE AppThread
  BY <1>1 DEF EndsWhenAsked, TypeOK, AppThread, AppEntry, AndroidMainReturns, ReadCmd, PreExecCmd,
              PreExec, OnAppCmd, PostExecCmd, AppDestroy, MainAlone
<1>2. CASE UNCHANGED vars BY <1>2 DEF EndsWhenAsked, vars
<1>3. CASE MainThread
  <2>1. UNCHANGED <<polls, destroyed, destroyRequested>> /\ apc' \in {apc, "entry"}
    BY <1>3 DEF MainThread, OnCreate, OnSaveInstanceState, OnOther, OnDestroy,
                SetActivityState, SetInput, SetWindow, Wait, Return
  <2> QED BY <2>1 DEF EndsWhenAsked
<1> QED BY <1>1, <1>2, <1>3 DEF Next

LEMMA StateOrderStep == ASSUME TypeOK, Safe, StateOrder, [Next]_vars PROVE StateOrder'
<1>1. CASE ReadCmd
  <2>1. /\ Len(pipe) \in Nat \ {0} /\ Len(pipe') = Len(pipe) - 1 /\ cmd' = pipe[1]
        /\ pipe' \in Seq(Cmds)
        /\ \A i \in 1..Len(pipe') : pipe'[i] = pipe[i + 1]
    BY <1>1, Taken
  <2>2. UNCHANGED <<activityState, call>> BY <1>1 DEF ReadCmd, MainAlone
  <2>3. \A i \in 1..Len(pipe') : i + 1 \in 1..Len(pipe) BY <2>1
  <2>4. \A i \in 1..Len(pipe') : pipe'[i] \in StateCmds =>
          pipe'[i] = activityState \/ (pipe'[i] = call /\ i = Len(pipe'))
    BY <2>1, <2>3 DEF StateOrder
  <2>5. 1 \in 1..Len(pipe) BY <2>1
  <2>6. Len(pipe) = 1 => pipe' = <<>> BY <2>1, EmptySeq
  <2> QED BY <2>1, <2>2, <2>4, <2>5, <2>6 DEF StateOrder
<1>2. CASE PreExecCmd
  <2>1. UNCHANGED <<pipe, call, cmd>> /\ apc = "read" /\ apc' = "handle"
    BY <1>2 DEF PreExecCmd, MainAlone
  <2>2. activityState' = IF cmd \in StateCmds THEN cmd ELSE activityState
    BY <1>2 DEF PreExecCmd, PreExec
  <2>3. Len(<<>>) = 0 OBVIOUS
  <2>4. CASE cmd \notin StateCmds \/ cmd = activityState BY <2>1, <2>2, <2>4 DEF StateOrder
  <2>5. CASE cmd \in StateCmds /\ pipe = <<>> BY <2>1, <2>3, <2>5 DEF StateOrder
  <2> QED BY <2>1, <2>4, <2>5 DEF StateOrder
<1>3. CASE UNCHANGED <<pipe, cmd, activityState, call>> /\ (apc' = "read" => apc = "read")
  BY <1>3 DEF StateOrder
<1>4. CASE PostExecCmd
  BY <1>4 DEF PostExecCmd, MainAlone, StateOrder
<1>5. CASE Return
  <2>1. UNCHANGED <<pipe, cmd, apc, activityState>> /\ (call \in StateCmds => activityState = call)
    BY <1>5, DoneOf DEF Return
  <2> QED BY <2>1 DEF StateOrder
<1>6. ASSUME call = "none", UNCHANGED <<cmd, activityState>>, apc' = "read" => apc = "read",
             NEW c \in Cmds, Write(<<c>>), c \in StateCmds => call' = c
      PROVE  StateOrder'
  <2>1. /\ Len(pipe) \in Nat /\ Len(pipe') = Len(pipe) + 1 /\ pipe'[Len(pipe')] = c
        /\ \A i \in 1..Len(pipe) : pipe'[i] = pipe[i]
    BY <1>6, WrittenOne
  <2>2. /\ \A i \in 1..Len(pipe) : pipe[i] \in StateCmds => pipe[i] = activityState
        /\ cmd \in StateCmds /\ apc = "read" => cmd = activityState
    BY <1>6 DEF StateOrder, StateCmds
  <2>3. \A i \in 1..Len(pipe') : i \in 1..Len(pipe) \/ i = Len(pipe') BY <2>1
  <2> QED BY <1>6, <2>1, <2>2, <2>3 DEF StateOrder
<1>7. ASSUME NEW w \in Windows \union {NULL}, SetWindow(w) PROVE StateOrder'
  <2>1. call = "none" /\ UNCHANGED <<cmd, apc, activityState>> BY <1>7 DEF SetWindow, Enter
  <2>2. /\ \A i \in 1..Len(pipe) : pipe[i] \in StateCmds => pipe[i] = activityState
        /\ cmd \in StateCmds /\ apc = "read" => cmd = activityState
    BY <2>1 DEF StateOrder, StateCmds
  <2>3. \A i \in 1..Len(pipe') : pipe'[i] \in StateCmds => i \in 1..Len(pipe) /\ pipe'[i] = pipe[i]
    BY <1>7, WindowWrites DEF StateCmds
  <2> QED BY <2>1, <2>2, <2>3 DEF StateOrder
<1>8. CASE OnSaveInstanceState BY <1>6, <1>8 DEF OnSaveInstanceState, Enter, Cmds, StateCmds
<1>9. CASE OnOther BY <1>6, <1>9 DEF OnOther, Cmds, StateCmds
<1>10. CASE OnDestroy BY <1>6, <1>10 DEF OnDestroy, Enter, Cmds, StateCmds
<1>11. ASSUME NEW c \in StateCmds, SetActivityState(c) PROVE StateOrder'
  BY <1>6, <1>11 DEF SetActivityState, Enter, Cmds
<1>12. ASSUME NEW q \in Queues \union {NULL}, SetInput(q) PROVE StateOrder'
  BY <1>6, <1>12 DEF SetInput, Enter, Cmds, StateCmds
<1>13. CASE OnCreate
  <2>1. UNCHANGED <<pipe, cmd, activityState>> /\ call = "none" /\ apc' = "entry"
    BY <1>13 DEF OnCreate, Enter
  <2> QED BY <2>1 DEF StateOrder, StateCmds
<1> QED BY <1>1, <1>2, <1>3, <1>4, <1>5, <1>7, <1>8, <1>9, <1>10, <1>11, <1>12, <1>13
        DEF Next, vars, MainThread, AppThread, Wait, AppEntry, AndroidMainReturns, OnAppCmd,
            AppDestroy, MainAlone

\* The commands android_app_set_window puts in the pipe.
LEMMA WindowAsked ==
  ASSUME TypeOK, NEW w \in Windows \union {NULL}, SetWindow(w)
  PROVE  /\ w # NULL => Queued("INIT_WINDOW")'
         /\ pendingWindow # NULL => Queued("TERM_WINDOW")'
<1> DEFINE term == IF pendingWindow # NULL THEN <<"TERM_WINDOW">> ELSE <<>>
           init == IF w # NULL THEN <<"INIT_WINDOW">> ELSE <<>>
           cs == term \o init
<1>1. "TERM_WINDOW" \in Cmds /\ "INIT_WINDOW" \in Cmds BY DEF Cmds
<1>2. term \in Seq(Cmds) /\ init \in Seq(Cmds) BY ONLY <1>1
<1>3. /\ Len(term) \in 0..1 /\ Len(init) \in 0..1
      /\ w # NULL => Len(init) = 1 /\ init[1] = "INIT_WINDOW"
      /\ pendingWindow # NULL => Len(term) = 1 /\ term[1] = "TERM_WINDOW"
  OBVIOUS
<1>4. Write(cs) BY DEF SetWindow
<1>5. /\ cs \in Seq(Cmds) /\ Len(cs) = Len(term) + Len(init)
      /\ \A i \in 1..Len(cs) : cs[i] = IF i <= Len(term) THEN term[i] ELSE init[i - Len(term)]
  BY <1>2, ConcatProperties
<1> HIDE DEF cs, term, init
<1>6. /\ Len(pipe') = Len(pipe) + Len(cs)
      /\ \A i \in 1..Len(pipe') :
           pipe'[i] = IF i <= Len(pipe) THEN pipe[i] ELSE cs[i - Len(pipe)]
  BY <1>4, <1>5, Written
<1>7. Len(pipe) \in Nat BY DEF TypeOK
<1>8. \A i \in 1..Len(cs) : Len(pipe) + i \in 1..Len(pipe') /\ pipe'[Len(pipe) + i] = cs[i]
  <2>1. ASSUME NEW i \in 1..Len(cs) PROVE Len(pipe) + i \in 1..Len(pipe')
                                          /\ pipe'[Len(pipe) + i] = cs[i]
    <3>1. Len(cs) \in Nat BY <1>5
    <3>2. /\ Len(pipe) + i \in 1..Len(pipe') /\ ~(Len(pipe) + i <= Len(pipe))
          /\ (Len(pipe) + i) - Len(pipe) = i
      BY <1>6, <1>7, <3>1
    <3> QED BY <1>6, <3>2
  <2> QED BY <2>1
<1>9. ASSUME w # NULL PROVE Queued("INIT_WINDOW")'
  <2>1. Len(init) = 1 /\ init[1] = "INIT_WINDOW" BY <1>3, <1>9
  <2>2. Len(cs) \in 1..Len(cs) /\ ~(Len(cs) <= Len(term)) /\ Len(cs) - Len(term) = 1
    BY ONLY <1>3, <1>5, <2>1
  <2>3. cs[Len(cs)] = init[Len(cs) - Len(term)] BY ONLY <1>5, <2>2
  <2>4. cs[Len(cs)] = "INIT_WINDOW" BY ONLY <2>1, <2>2, <2>3
  <2> QED BY <1>8, <2>2, <2>4 DEF Queued
<1>10. ASSUME pendingWindow # NULL PROVE Queued("TERM_WINDOW")'
  <2>1. Len(term) = 1 /\ term[1] = "TERM_WINDOW" BY <1>3, <1>10
  <2>2. 1 \in 1..Len(cs) /\ 1 <= Len(term) BY ONLY <1>3, <1>5, <2>1
  <2>3. cs[1] = "TERM_WINDOW" BY ONLY <1>5, <2>1, <2>2
  <2> QED BY <1>8, <2>2, <2>3 DEF Queued
<1> QED BY <1>9, <1>10

\* A callback that has just been entered finds its command in the pipe.
LEMMA WaitByMain == ASSUME TypeOK, WaitIsDue, MainThread PROVE WaitIsDue'
<1>1. CASE call' = "none" BY <1>1 DEF WaitIsDue
<1>2. CASE Wait BY <1>2 DEF Wait, WaitIsDue, Done, Due, Unseen, Queued
<1>3. ASSUME NEW c \in Cmds, Write(<<c>>) PROVE Queued(c)'
  <2>1. Len(pipe) \in Nat /\ Len(pipe') = Len(pipe) + 1 /\ pipe'[Len(pipe')] = c
    BY <1>3, WrittenOne
  <2>2. Len(pipe') \in 1..Len(pipe') BY <2>1
  <2> QED BY <2>1, <2>2 DEF Queued
<1>4. CASE OnCreate
  <2>1. call' = "create" /\ apc' = "entry" BY <1>4 DEF OnCreate, Enter
  <2> QED BY <2>1, DueAfter DEF WaitIsDue
<1>5. CASE OnSaveInstanceState
  <2>1. call' = "save_state" /\ Queued("SAVE_STATE")'
    BY <1>3, <1>5 DEF OnSaveInstanceState, Enter, Cmds
  <2> QED BY <2>1, DueAfter DEF WaitIsDue
<1>6. CASE OnDestroy
  <2>1. call' = "free" /\ Queued("DESTROY")' BY <1>3, <1>6 DEF OnDestroy, Enter, Cmds
  <2> QED BY <2>1, DueAfter DEF WaitIsDue, Unseen
<1>7. ASSUME NEW c \in StateCmds, SetActivityState(c) PROVE WaitIsDue'
  <2>1. call' = c /\ Queued(c)' BY <1>3, <1>7 DEF SetActivityState, Enter, Cmds
  <2> QED BY <2>1, DueAfter DEF WaitIsDue, Unseen
<1>8. ASSUME NEW q \in Queues \union {NULL}, SetInput(q) PROVE WaitIsDue'
  <2>1. call' = "set_input" /\ Queued("INPUT_CHANGED")' BY <1>3, <1>8 DEF SetInput, Enter, Cmds
  <2> QED BY <2>1, DueAfter DEF WaitIsDue, Unseen
<1>9. ASSUME NEW w \in Windows \union {NULL}, w # pendingWindow, SetWindow(w) PROVE WaitIsDue'
  <2>1. call' = "set_window" /\ pendingWindow' = w BY <1>9 DEF SetWindow, Enter
  <2>2. Queued(IF w # NULL THEN "INIT_WINDOW" ELSE "TERM_WINDOW")' BY <1>9, WindowAsked
  <2> QED BY <2>1, <2>2, DueAfter DEF WaitIsDue, Unseen
<1> QED BY <1>1, <1>2, <1>4, <1>5, <1>6, <1>7, <1>8, <1>9
        DEF MainThread, OnOther, Return

\* No step of the app thread loses the command a callback waits for, and none
\* undoes what a command before it has done.
LEMMA WaitByApp == ASSUME TypeOK, Safe, StateOrder, WaitIsDue, AppThread PROVE WaitIsDue'
<1> SUFFICES ASSUME polls', call' # "none", ~Done(call)' PROVE Due(call)'
  BY DEF WaitIsDue
<1>1. UNCHANGED <<polls, call, pendingWindow, pendingInputQueue>>
  BY DEF AppThread, AppEntry, AndroidMainReturns, ReadCmd, PreExecCmd, OnAppCmd, PostExecCmd,
         AppDestroy, MainAlone
<1>2. call \in Calls /\ polls /\ (~Done(call) => Due(call)) BY <1>1 DEF WaitIsDue, TypeOK
<1>3. cmd # NoCmd <=> apc \in {"read", "handle", "handled"} BY DEF Safe, Phases
<1>4. NoCmd \notin Cmds BY DEF NoCmd, Cmds, StateCmds
<1>5. \A c : UNCHANGED pipe => (Queued(c)' <=> Queued(c)) BY DEF Queued
<1>6. \A c : Unseen(c)' <=> Queued(c)' \/ (cmd' = c /\ apc' = "read") BY DEF Unseen
<1>7. CASE AppEntry
  <2>1. /\ apc = "entry" /\ apc' = "main" /\ running'
        /\ UNCHANGED <<pipe, stateSaved, destroyed, destroyRequested, window, inputQueue,
                      activityState, cmd>>
    BY <1>7 DEF AppEntry
  <2> QED BY <1>1, <1>2, <1>3, <1>4, <1>5, <1>6, <2>1, DoneOf, DueOf, DoneAfter, DueAfter
          DEF Calls, Unseen
<1>8. CASE ReadCmd
  <2>1. /\ apc = "main" /\ apc' = "read" /\ ~destroyRequested
        /\ UNCHANGED <<running, stateSaved, destroyed, destroyRequested, window, inputQueue,
                      activityState>>
    BY <1>8 DEF ReadCmd
  <2>2. \A c \in Cmds : Queued(c) => Queued(c)' \/ cmd' = c
    BY <1>8, StaysQueued DEF Next, AppThread
  <2>3. StateCmds \subseteq Cmds
        /\ {"INPUT_CHANGED", "INIT_WINDOW", "TERM_WINDOW", "SAVE_STATE", "DESTROY"} \subseteq Cmds
    BY DEF Cmds
  <2> QED BY <1>1, <1>2, <1>3, <1>4, <1>6, <2>1, <2>2, <2>3, DoneOf, DueOf, DoneAfter, DueAfter
          DEF Calls, Unseen
<1>9. CASE PreExecCmd
  <2>1. /\ apc = "read" /\ apc' = "handle" /\ PreExec(cmd)
        /\ UNCHANGED <<pipe, running, stateSaved, destroyed, cmd>>
    BY <1>9 DEF PreExecCmd
  <2>2. CASE call \in {"create", "save_state", "free"}
    BY <1>1, <1>2, <1>5, <1>6, <2>1, <2>2, DoneOf, DueOf, DoneAfter, DueAfter
    DEF Unseen, PreExec
  <2>3. CASE call = "set_input"
    BY <1>1, <1>2, <1>5, <1>6, <2>1, <2>3, DoneOf, DueOf, DoneAfter, DueAfter DEF Unseen, PreExec
  <2>4. CASE call = "set_window"
    BY <1>1, <1>2, <1>5, <1>6, <2>1, <2>4, DoneOf, DueOf, DoneAfter, DueAfter DEF Unseen, PreExec
  <2>5. CASE call \in StateCmds
    <3>1. cmd # call /\ activityState' # call
      BY <1>1, <2>1, <2>5, DoneAfter DEF PreExec
    <3>2. activityState # call
      BY <2>1, <2>5, <3>1 DEF PreExec, StateOrder
    <3> QED BY <1>1, <1>2, <1>5, <1>6, <2>1, <2>5, <3>1, <3>2, DoneOf, DueOf, DueAfter DEF Unseen
  <2> QED BY <1>2, <2>2, <2>3, <2>4, <2>5 DEF Calls
<1>10. CASE OnAppCmd
  <2>1. /\ apc = "handle" /\ apc' = "handled"
        /\ UNCHANGED <<pipe, running, stateSaved, destroyed, destroyRequested, window, inputQueue,
                      activityState, cmd>>
    BY <1>10 DEF OnAppCmd
  <2> QED BY <1>1, <1>2, <1>5, <1>6, <2>1, DoneOf, DueOf, DoneAfter, DueAfter DEF Calls, Unseen
<1>11. CASE PostExecCmd
  <2>1. /\ apc = "handled" /\ apc' = "main" /\ cmd' = NoCmd
        /\ window' = (IF cmd = "TERM_WINDOW" THEN NULL ELSE window)
        /\ stateSaved' = (stateSaved \/ cmd = "SAVE_STATE")
        /\ UNCHANGED <<pipe, running, destroyed, destroyRequested, inputQueue, activityState>>
    BY <1>11 DEF PostExecCmd
  <2>2. cmd = "TERM_WINDOW" => window # pendingWindow BY DEF Safe, WindowsDue, TermDue
  <2>3. CASE call = "set_window"
    BY <1>1, <1>2, <1>5, <1>6, <2>1, <2>2, <2>3, DoneOf, DueOf, DoneAfter, DueAfter DEF Unseen
  <2>4. CASE call # "set_window"
    BY <1>1, <1>2, <1>5, <1>6, <2>1, <2>4, DoneOf, DueOf, DoneAfter, DueAfter DEF Calls, Unseen
  <2> QED BY <2>3, <2>4
<1>12. CASE AppDestroy
  <2>1. call = "free" /\ destroyed'
    BY <1>1, <1>12 DEF AppDestroy, Safe, Ending, Phases
  <2> QED BY <1>1, <2>1, DoneAfter
<1> QED BY <1>2, <1>7, <1>8, <1>9, <1>10, <1>11, <1>12 DEF AppThread, AndroidMainReturns

LEMMA AnsweringStep == ASSUME TypeOK, Safe, Answering, [Next]_vars PROVE Answering'
<1>1. WaitIsDue'
  <2>1. CASE UNCHANGED vars BY <2>1 DEF vars, Answering, WaitIsDue, Done, Due, Unseen, Queued
  <2> QED BY <2>1, WaitByMain, WaitByApp DEF Next, Answering
<1> QED BY <1>1, StateOrderStep, AsleepStep, EndsStep DEF Answering

\* A callback sleeps only while its condition is false, and with an app that polls
\* only while what makes it true is on its way: the loops around pthread_cond_wait
\* in android_native_app_glue.c miss no broadcast.
THEOREM SleepsAreAnswered == Spec => []SleepIsAnswered
<1>1. TypeOK /\ Safe /\ Answering => SleepIsAnswered
  <2> SUFFICES ASSUME TypeOK, Safe, Answering, asleep PROVE SleepIsAnswered
    BY DEF SleepIsAnswered
  <2>1. call # "none" /\ ~Done(call) BY DEF Answering, AsleepWaits
  <2>2. polls => Due(call) BY <2>1 DEF Answering, WaitIsDue
  <2>3. destroyRequested => call = "free" BY <2>1 DEF Safe, Ending, Phases
  <2>4. polls => apc # "ended"
    BY <2>1, <2>3, DoneOf DEF Answering, EndsWhenAsked
  <2> QED BY <2>1, <2>2, <2>3, <2>4 DEF SleepIsAnswered
<1>2. TypeOK /\ Safe /\ Answering /\ [Next]_vars => Answering' BY AnsweringStep
<1> QED BY <1>1, <1>2, Invariance, InitAnswering, PTL DEF Spec

-----------------------------------------------------------------------------
(* android_main of adapter.c, which returns at once.                       *)

\* Nobody carries out a command: the app has nothing, and what the main thread
\* has asked for is pending for ever.
Unserved ==
  ~polls =>
    /\ cmd = NoCmd /\ apc \in {"none", "entry", "main", "ended"}
    /\ window = NULL /\ inputQueue = NULL /\ activityState = NoCmd
    /\ ~stateSaved /\ ~destroyed
    /\ pendingWindow # NULL <=> call = "set_window"
    /\ pendingInputQueue # NULL <=> call = "set_input"

\* So no condition but the one of ANativeActivity_onCreate holds.
LEMMA NothingDone ==
  ASSUME Unserved, ~polls, call \in Calls \ {"create"}
  PROVE  ~Done(call)
<1>1. NoCmd \notin StateCmds BY DEF NoCmd, StateCmds
<1> QED BY <1>1, DoneOf DEF Unserved, Calls

LEMMA UnservedStep == ASSUME TypeOK, Unserved, [Next]_vars PROVE Unserved'
<1> SUFFICES ASSUME ~polls' PROVE Unserved' BY DEF Unserved
<1>1. CASE UNCHANGED vars BY <1>1 DEF vars, Unserved
<1>2. CASE AppThread
  BY <1>2 DEF Unserved, AppThread, AppEntry, AndroidMainReturns, ReadCmd, PreExecCmd, OnAppCmd,
              PostExecCmd, AppDestroy, MainAlone
<1>3. CASE MainThread
  <2>0. stateSaved' = stateSaved \/ stateSaved' = FALSE
    BY <1>3 DEF MainThread, OnCreate, OnSaveInstanceState, OnOther, OnDestroy, SetActivityState,
                SetInput, SetWindow, Wait, Return
  <2>1. /\ UNCHANGED <<polls, window, inputQueue, activityState, destroyed, cmd>>
        /\ apc' \in {apc, "entry"}
    BY <1>3 DEF MainThread, OnCreate, OnSaveInstanceState, OnOther, OnDestroy, SetActivityState,
                SetInput, SetWindow, Wait, Return
  <2>2. ~polls BY <2>1
  <2>3. CASE Return
    <3>1. call = "create" \/ call \notin Calls BY <2>2, <2>3, NothingDone DEF Return
    <3>2. call \in Calls BY <2>3 DEF Return, TypeOK
    <3> QED BY <2>0, <2>1, <2>2, <2>3, <3>1, <3>2 DEF Return, Unserved
  <2>4. CASE MainThread /\ ~Return
    <3>1. /\ pendingWindow' # NULL <=> call' = "set_window"
          /\ pendingInputQueue' # NULL <=> call' = "set_input"
      BY <2>1, <2>2, <2>4 DEF Unserved, MainThread, Enter, OnCreate, OnSaveInstanceState, OnOther,
                  OnDestroy, SetActivityState, SetInput, SetWindow, Wait, StateCmds
    <3> QED BY <2>0, <2>1, <2>2, <3>1 DEF Unserved
  <2> QED BY <1>3, <2>3, <2>4
<1> QED BY <1>1, <1>2, <1>3 DEF Next

\* With android_main of adapter.c the main thread stays in the first callback after
\* ANativeActivity_onCreate that waits: nobody answers what it waits for.
THEOREM NobodyAnswers == Spec => NeverReturnsUnpolled
<1>1. Init => Unserved BY DEF Init, Unserved, NoCmd
<1>2. TypeOK /\ Safe /\ Unserved /\ [Next]_vars => Unserved' BY UnservedStep
<1>3. TypeOK /\ Safe /\ Unserved /\ [Next]_vars
        => (~polls /\ call \notin {"none", "create"} => call' = call)
  <2> SUFFICES ASSUME TypeOK, Unserved, [Next]_vars, ~polls, call \notin {"none", "create"}
               PROVE  call' = call
    OBVIOUS
  <2>1. ~Return
    BY NothingDone DEF Return, TypeOK
  <2> QED BY <2>1 DEF Next, vars, MainThread, AppThread, AppEntry, AndroidMainReturns, ReadCmd,
             PreExecCmd, OnAppCmd, PostExecCmd, AppDestroy, Enter, OnCreate, OnSaveInstanceState,
             OnOther, OnDestroy, SetActivityState, SetInput, SetWindow, Wait, MainAlone
<1> QED BY <1>1, <1>2, <1>3, Invariance, PTL DEF Spec, NeverReturnsUnpolled

-----------------------------------------------------------------------------
(* One window after the other.                                             *)

\* When INIT_WINDOW is the next window command, the app has no window.
NoneBeforeInit == InitDue /\ ~TermDue => window = NULL

LEMMA NoneBeforeInitByMain ==
  ASSUME TypeOK, Safe, NoneBeforeInit, MainThread PROVE NoneBeforeInit'
<1>1. UNCHANGED <<window, cmd>> /\ (apc' = "read" => apc = "read")
  BY DEF MainThread, OnCreate, OnSaveInstanceState, OnOther, OnDestroy, SetActivityState,
         SetInput, SetWindow, Wait, Return
<1>2. Queued("TERM_WINDOW") => Queued("TERM_WINDOW")'
  <2>1. "TERM_WINDOW" \in Cmds BY DEF Cmds
  <2>2. Queued("TERM_WINDOW") => Queued("TERM_WINDOW")' \/ (ReadCmd /\ cmd' = "TERM_WINDOW")
    BY <2>1, StaysQueued DEF Next
  <2>3. ~(ReadCmd /\ cmd' = "TERM_WINDOW")
    BY <1>1 DEF ReadCmd, Safe, Phases, NoCmd
  <2> QED BY <2>2, <2>3
<1>3. CASE Queued("INIT_WINDOW")' => Queued("INIT_WINDOW")
  BY <1>1, <1>2, <1>3 DEF NoneBeforeInit, InitDue, TermDue
<1>4. CASE Queued("INIT_WINDOW")' /\ ~Queued("INIT_WINDOW")
  <2>1. call' = "set_window" /\ pipe' # pipe BY <1>4, QueuedByMain DEF Queued
  <2>2. PICK w \in Windows \union {NULL} : SetWindow(w)
    BY <2>1 DEF MainThread, Enter, OnCreate, OnSaveInstanceState, OnOther, OnDestroy,
                SetActivityState, SetInput, Wait, Return, StateCmds
  <2>3. CASE pendingWindow # NULL BY <2>2, <2>3, WindowAsked DEF NoneBeforeInit, TermDue
  <2>4. CASE pendingWindow = NULL
    BY <1>1, <2>2, <2>4 DEF SetWindow, Enter, Safe, WindowsDue, NoneBeforeInit
  <2> QED BY <2>3, <2>4
<1> QED BY <1>3, <1>4

LEMMA NoneBeforeInitByApp ==
  ASSUME TypeOK, Safe, NoneBeforeInit, AppThread PROVE NoneBeforeInit'
<1>1. \A c : UNCHANGED pipe => (Queued(c)' <=> Queued(c)) BY DEF Queued
<1>2. CASE UNCHANGED <<pipe, cmd, window>> /\ apc' # "read"
  BY <1>1, <1>2 DEF NoneBeforeInit, InitDue, TermDue
<1>3. CASE ReadCmd
  <2>1. InitDue' => InitDue
    <3>1. Queued("INIT_WINDOW")' => Queued("INIT_WINDOW") BY QueuedByApp DEF Cmds
    <3>2. ASSUME cmd' = "INIT_WINDOW" PROVE Queued("INIT_WINDOW")
      <4>1. Len(pipe) \in Nat \ {0} /\ pipe[1] = "INIT_WINDOW" BY <1>3, <3>2, Taken
      <4>2. 1 \in 1..Len(pipe) BY <4>1
      <4> QED BY <4>1, <4>2 DEF Queued
    <3> QED BY <3>1, <3>2 DEF InitDue
  <2>2. TermDue => TermDue'
    BY <1>3, StaysQueued DEF TermDue, ReadCmd, Safe, Phases, Next, AppThread, Cmds, NoCmd
  <2> QED BY <1>3, <2>1, <2>2 DEF NoneBeforeInit, ReadCmd
<1>4. CASE PreExecCmd
  <2>1. /\ apc = "read" /\ apc' = "handle" /\ UNCHANGED <<pipe, cmd>>
        /\ cmd # "INIT_WINDOW" => window' = window
    BY <1>4 DEF PreExecCmd, PreExec
  <2>2. cmd = "INIT_WINDOW" => ~InitDue' BY <1>1, <2>1 DEF InitDue, Safe, WindowOrder
  <2> QED BY <1>1, <2>1, <2>2 DEF NoneBeforeInit, InitDue, TermDue
<1>5. CASE PostExecCmd
  <2>1. /\ apc = "handled" /\ apc' = "main" /\ UNCHANGED pipe
        /\ window' = (IF cmd = "TERM_WINDOW" THEN NULL ELSE window)
    BY <1>5 DEF PostExecCmd
  <2> QED BY <1>1, <2>1 DEF NoneBeforeInit, InitDue, TermDue
<1> QED BY <1>2, <1>3, <1>4, <1>5
        DEF AppThread, AppEntry, AndroidMainReturns, OnAppCmd, AppDestroy

\* The app loses a window before it gets the next: TERM_WINDOW of the one is
\* carried out before INIT_WINDOW of the other (android_app_set_window).
THEOREM WindowAfterWindow == Spec => WindowsOneByOne
<1>1. Init => NoneBeforeInit BY DEF Init, NoneBeforeInit
<1>2. TypeOK /\ Safe /\ NoneBeforeInit /\ [Next]_vars => NoneBeforeInit'
  <2>1. UNCHANGED vars /\ NoneBeforeInit => NoneBeforeInit'
    BY DEF vars, NoneBeforeInit, InitDue, TermDue, Queued
  <2> QED BY <2>1, NoneBeforeInitByMain, NoneBeforeInitByApp DEF Next
<1>3. TypeOK /\ Safe /\ NoneBeforeInit /\ [Next]_vars
        => (window # NULL => window' \in {window, NULL})
  <2> SUFFICES ASSUME Safe, NoneBeforeInit, [Next]_vars, window # NULL
               PROVE  window' \in {window, NULL}
    OBVIOUS
  <2>1. CASE PreExecCmd
    <3>1. cmd # "INIT_WINDOW" BY <2>1 DEF PreExecCmd, Safe, WindowOrder, NoneBeforeInit, InitDue, TermDue
    <3> QED BY <2>1, <3>1 DEF PreExecCmd, PreExec
  <2>2. CASE PostExecCmd BY <2>2 DEF PostExecCmd
  <2> QED BY <2>1, <2>2
          DEF Next, vars, MainThread, AppThread, AppEntry, AndroidMainReturns, ReadCmd, OnAppCmd,
              AppDestroy, OnCreate, OnSaveInstanceState, OnOther, OnDestroy, SetActivityState,
              SetInput, SetWindow, Wait, Return
<1> QED BY <1>1, <1>2, <1>3, Invariance, PTL DEF Spec, WindowsOneByOne

=============================================================================
