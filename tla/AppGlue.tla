------------------------------- MODULE AppGlue ------------------------------
(***************************************************************************)
(* The glue between the callbacks of a NativeActivity, on the main thread, *)
(* and the app thread (cpp/src/android_native_app_glue.c), for one         *)
(* activity: MainActivity.                                                 *)
(*                                                                         *)
(* A callback locks the android_app, writes a command to the pipe and      *)
(* waits on the condition variable until the app thread has done what the  *)
(* command asks for.  What happens under one hold of the lock is one       *)
(* action.  android_main is the app's: one that polls is the loop the       *)
(* header describes, which processes commands until destroyRequested and   *)
(* then returns a value that is not 0; one that does not is android_main   *)
(* of adapter.c, which returns 0 at once.                                  *)
(***************************************************************************)
EXTENDS Integers, Sequences

CONSTANTS Windows,   \* ANativeWindow objects
          Queues,    \* AInputQueue objects
          NULL,
          AppKinds,  \* whether android_main polls for commands
          MaxCalls,  \* callbacks of the activity: a bound of the model
          MaxPipe    \* commands in the pipe: a bound of the model

ASSUME NullAssumption == NULL \notin Windows /\ NULL \notin Queues
ASSUME BoundAssumption == MaxCalls \in Nat /\ MaxPipe \in Nat /\ AppKinds \subseteq BOOLEAN

VARIABLES
  polls,    \* android_main polls for commands
  call,     \* the callback the main thread is in, or "none"
  asleep,   \* it is in pthread_cond_wait
  calls,    \* number of callbacks so far
  pipe,     \* commands between msgwrite and msgread
  running, stateSaved, destroyed, destroyRequested,
  window, pendingWindow,
  inputQueue, pendingInputQueue,
  activityState,
  savedState,  \* NoState, or which call of onSaveInstanceState it is for
  apc,      \* the app thread
  cmd,      \* the command it processes
  surfaces, \* windows the system keeps for the activity
  handed,   \* what the latest onSaveInstanceState returned
  made,     \* what the app stored for it
  freed     \* android_app was freed

mainVars == <<call, asleep, calls>>
flagVars == <<running, stateSaved, destroyed, destroyRequested>>
heldVars == <<window, inputQueue, activityState>>
pendingVars == <<pendingWindow, pendingInputQueue>>
saveVars == <<savedState, handed, made>>
appVars == <<apc, cmd>>
vars == <<polls, mainVars, pipe, flagVars, heldVars, pendingVars, saveVars, appVars, surfaces, freed>>

StateCmds == {"START", "RESUME", "PAUSE", "STOP"}
\* "OTHER" stands for the commands without a rendezvous: CONFIG_CHANGED,
\* CONTENT_RECT_CHANGED, LOW_MEMORY, the focus and the redraw commands.
Cmds == StateCmds \union {"INPUT_CHANGED", "INIT_WINDOW", "TERM_WINDOW",
                          "SAVE_STATE", "DESTROY", "OTHER"}
Calls == {"create", "set_input", "set_window", "save_state", "free"} \union StateCmds
NoCmd == "none"

\* What a saved state may be besides the number of the call it was made in: 0 is
\* the state the activity was created with.
NoState == -1
NotAsked == -2

Init ==
  /\ polls \in AppKinds
  /\ call = "none" /\ asleep = FALSE /\ calls = 0 /\ pipe = <<>>
  /\ running = FALSE /\ stateSaved = FALSE /\ destroyed = FALSE /\ destroyRequested = FALSE
  /\ window = NULL /\ pendingWindow = NULL
  /\ inputQueue = NULL /\ pendingInputQueue = NULL
  /\ activityState = NoCmd /\ savedState \in {NoState, 0}
  /\ apc = "none" /\ cmd = NoCmd
  /\ surfaces = {} /\ handed = NoState /\ made = NotAsked /\ freed = FALSE

-----------------------------------------------------------------------------
(* The main thread.                                                        *)

\* A bug: android_app_free does not wait until the app thread is done.
DoneEarly(c) ==
  CASE c = "create"     -> running
    [] c = "set_input"  -> inputQueue = pendingInputQueue
    [] c = "set_window" -> window = pendingWindow
    [] c = "save_state" -> stateSaved
    [] c = "free"       -> destroyRequested
    [] c \in StateCmds  -> activityState = c

\* A bug: android_app_set_window only waits for a window to be taken.
DoneUnlessWindow(c) ==
  CASE c = "create"     -> running
    [] c = "set_input"  -> inputQueue = pendingInputQueue
    [] c = "set_window" -> pendingWindow = NULL \/ window # NULL
    [] c = "save_state" -> stateSaved
    [] c = "free"       -> destroyed
    [] c \in StateCmds  -> activityState = c

\* What the callback waits for.
Done(c) ==
  CASE c = "create"     -> running
    [] c = "set_input"  -> inputQueue = pendingInputQueue
    [] c = "set_window" -> window = pendingWindow
    [] c = "save_state" -> stateSaved
    [] c = "free"       -> destroyed
    [] c \in StateCmds  -> activityState = c

\* The system makes a callback.
Enter(c) ==
  /\ call = "none" /\ ~freed /\ calls < MaxCalls
  /\ call' = c /\ calls' = calls + 1

\* The loop around pthread_cond_wait is entered under the same hold.
ThenWait == asleep' = ~Done(call)'

Alive == apc # "none"

\* android_app_write_cmd
Write(cs) == Len(pipe) + Len(cs) <= MaxPipe /\ pipe' = pipe \o cs

\* ANativeActivity_onCreate: android_app_create.
OnCreate ==
  /\ apc = "none" /\ Enter("create")
  /\ apc' = "entry"
  /\ UNCHANGED <<polls, asleep, pipe, flagVars, heldVars, pendingVars, saveVars, cmd, surfaces, freed>>

\* onStart, onResume, onPause, onStop: android_app_set_activity_state.
SetActivityState(c) ==
  /\ Alive /\ Enter(c) /\ Write(<<c>>)
  /\ UNCHANGED <<polls, flagVars, heldVars, pendingVars, saveVars, appVars, surfaces, freed>>
  /\ ThenWait

\* onInputQueueCreated and onInputQueueDestroyed: android_app_set_input.
SetInput(q) ==
  /\ Alive /\ Enter("set_input") /\ Write(<<"INPUT_CHANGED">>)
  /\ pendingInputQueue' = q
  /\ UNCHANGED <<polls, flagVars, heldVars, pendingWindow, saveVars, appVars, surfaces, freed>>
  /\ ThenWait

\* A bug: one command, "else if", for a window that follows another.
SetWindowElseIf(w) ==
  /\ Alive /\ Enter("set_window")
  /\ Write(IF w # NULL THEN <<"INIT_WINDOW">> ELSE <<"TERM_WINDOW">>)
  /\ pendingWindow' = w
  /\ surfaces' = surfaces \union ({w} \ {NULL})
  /\ UNCHANGED <<polls, flagVars, heldVars, pendingInputQueue, saveVars, appVars, freed>>
  /\ ThenWait

\* android_app_set_window, for onNativeWindowCreated and onNativeWindowDestroyed.
SetWindow(w) ==
  /\ Alive /\ Enter("set_window")
  /\ Write((IF pendingWindow # NULL THEN <<"TERM_WINDOW">> ELSE <<>>)
             \o (IF w # NULL THEN <<"INIT_WINDOW">> ELSE <<>>))
  /\ pendingWindow' = w
  /\ surfaces' = surfaces \union ({w} \ {NULL})
  /\ UNCHANGED <<polls, flagVars, heldVars, pendingInputQueue, saveVars, appVars, freed>>
  /\ ThenWait

\* onSaveInstanceState
OnSaveInstanceState ==
  /\ Alive /\ Enter("save_state") /\ Write(<<"SAVE_STATE">>)
  /\ stateSaved' = FALSE /\ made' = NotAsked
  /\ UNCHANGED <<polls, running, destroyed, destroyRequested, heldVars, pendingVars, savedState,
                 handed, appVars, surfaces, freed>>
  /\ ThenWait

\* The callbacks that write a command and do not wait.
OnOther ==
  /\ Alive /\ call = "none" /\ ~freed /\ calls < MaxCalls /\ calls' = calls + 1
  /\ Write(<<"OTHER">>)
  /\ UNCHANGED <<polls, call, asleep, flagVars, heldVars, pendingVars, saveVars, appVars,
                 surfaces, freed>>

\* onDestroy: android_app_free.
OnDestroy ==
  /\ Alive /\ Enter("free") /\ Write(<<"DESTROY">>)
  /\ UNCHANGED <<polls, flagVars, heldVars, pendingVars, saveVars, appVars, surfaces, freed>>
  /\ ThenWait

\* The condition does not hold yet: pthread_cond_wait.
Wait ==
  /\ call # "none" /\ ~asleep /\ ~Done(call)
  /\ asleep' = TRUE
  /\ UNCHANGED <<polls, call, calls, pipe, flagVars, heldVars, pendingVars, saveVars, appVars,
                 surfaces, freed>>

\* The condition holds: the callback returns.  A window that was destroyed is
\* the system's again, the saved state is handed out, android_app is freed.
Return ==
  /\ call # "none" /\ ~asleep /\ Done(call)
  /\ call' = "none"
  /\ surfaces' = surfaces \intersect {pendingWindow}
  /\ IF call = "save_state"
     THEN handed' = savedState /\ savedState' = NoState
     ELSE UNCHANGED <<handed, savedState>>
  /\ freed' = (freed \/ call = "free")
  /\ UNCHANGED <<polls, asleep, calls, pipe, flagVars, heldVars, pendingVars, made, appVars>>

-----------------------------------------------------------------------------
(* The app thread.                                                         *)

\* What no step of the app thread changes.
MainAlone == UNCHANGED <<polls, call, calls, pendingVars, handed, surfaces, freed>>

\* pthread_cond_broadcast
Broadcast == asleep' = FALSE

\* android_app_entry, up to the call of android_main.
AppEntry ==
  /\ apc = "entry" /\ apc' = "main"
  /\ running' = TRUE /\ Broadcast
  /\ MainAlone
  /\ UNCHANGED <<pipe, stateSaved, destroyed, destroyRequested, heldVars, savedState, made, cmd>>

\* A bug: android_app_destroy is called whatever android_main returned.
AndroidMainReturnsDestroys ==
  /\ ~polls /\ apc = "main" /\ apc' = "ended"
  /\ destroyed' = TRUE /\ Broadcast
  /\ MainAlone
  /\ UNCHANGED <<pipe, running, stateSaved, destroyRequested, heldVars, savedState, made, cmd>>

\* android_main of adapter.c returns 0: android_app_entry returns.
AndroidMainReturns ==
  /\ ~polls /\ apc = "main" /\ apc' = "ended"
  /\ MainAlone
  /\ UNCHANGED <<asleep, pipe, flagVars, heldVars, savedState, made, cmd>>

\* A bug: SAVE_STATE does not free the state from before.
ReadCmdKeepsState ==
  /\ polls /\ apc = "main" /\ ~destroyRequested /\ pipe # <<>>
  /\ cmd' = Head(pipe) /\ pipe' = Tail(pipe)
  /\ apc' = "read"
  /\ MainAlone
  /\ UNCHANGED <<asleep, flagVars, heldVars, savedState, made>>

\* process_cmd: android_app_read_cmd.
ReadCmd ==
  /\ polls /\ apc = "main" /\ ~destroyRequested /\ pipe # <<>>
  /\ cmd' = Head(pipe) /\ pipe' = Tail(pipe)
  /\ savedState' = IF cmd' = "SAVE_STATE" THEN NoState ELSE savedState
  /\ apc' = "read"
  /\ MainAlone
  /\ UNCHANGED <<asleep, flagVars, heldVars, made>>

\* A bug: TERM_WINDOW takes the window away before the app has handled it.
PreExecTakes(c) ==
  /\ inputQueue' = IF c = "INPUT_CHANGED" THEN pendingInputQueue ELSE inputQueue
  /\ window' = CASE c = "INIT_WINDOW" -> pendingWindow
                 [] c = "TERM_WINDOW" -> NULL
                 [] OTHER -> window
  /\ activityState' = IF c \in StateCmds THEN c ELSE activityState
  /\ destroyRequested' = (destroyRequested \/ c = "DESTROY")

\* A bug: a missing break, INPUT_CHANGED falls into the case of the states.
PreExecFallsThrough(c) ==
  /\ inputQueue' = IF c = "INPUT_CHANGED" THEN pendingInputQueue ELSE inputQueue
  /\ window' = IF c = "INIT_WINDOW" THEN pendingWindow ELSE window
  /\ activityState' = IF c \in StateCmds \union {"INPUT_CHANGED"} THEN c ELSE activityState
  /\ destroyRequested' = (destroyRequested \/ c = "DESTROY")

\* What android_app_pre_exec_cmd sets.
PreExec(c) ==
  /\ inputQueue' = IF c = "INPUT_CHANGED" THEN pendingInputQueue ELSE inputQueue
  /\ window' = IF c = "INIT_WINDOW" THEN pendingWindow ELSE window
  /\ activityState' = IF c \in StateCmds THEN c ELSE activityState
  /\ destroyRequested' = (destroyRequested \/ c = "DESTROY")

\* android_app_pre_exec_cmd
PreExecCmd ==
  /\ apc = "read" /\ apc' = "handle"
  /\ PreExec(cmd)
  /\ IF cmd \in StateCmds \union {"INPUT_CHANGED", "INIT_WINDOW", "TERM_WINDOW"}
     THEN Broadcast ELSE UNCHANGED asleep
  /\ MainAlone
  /\ UNCHANGED <<pipe, running, stateSaved, destroyed, savedState, made, cmd>>

\* onAppCmd, the app's own: it may store a state when it is asked to.
OnAppCmd ==
  /\ apc = "handle" /\ apc' = "handled"
  /\ IF cmd = "SAVE_STATE"
     THEN \/ savedState' = calls /\ made' = calls
          \/ made' = NoState /\ UNCHANGED savedState
     ELSE UNCHANGED <<savedState, made>>
  /\ MainAlone
  /\ UNCHANGED <<asleep, pipe, flagVars, heldVars, cmd>>

\* A bug: no broadcast after TERM_WINDOW.
WakesNotTerm(c) == c = "SAVE_STATE"

\* The commands android_app_post_exec_cmd broadcasts for.
Wakes(c) == c \in {"TERM_WINDOW", "SAVE_STATE"}

\* android_app_post_exec_cmd
PostExecCmd ==
  /\ apc = "handled" /\ apc' = "main"
  /\ window' = IF cmd = "TERM_WINDOW" THEN NULL ELSE window
  /\ stateSaved' = (stateSaved \/ cmd = "SAVE_STATE")
  /\ savedState' = IF cmd = "RESUME" THEN NoState ELSE savedState
  /\ IF Wakes(cmd) THEN Broadcast ELSE UNCHANGED asleep
  /\ cmd' = NoCmd
  /\ MainAlone
  /\ UNCHANGED <<pipe, running, destroyed, destroyRequested, inputQueue, activityState, made>>

\* android_main returns for destroyRequested: android_app_destroy.
AppDestroy ==
  /\ polls /\ apc = "main" /\ destroyRequested /\ apc' = "ended"
  /\ savedState' = NoState
  /\ destroyed' = TRUE /\ Broadcast
  /\ MainAlone
  /\ UNCHANGED <<pipe, running, stateSaved, destroyRequested, heldVars, made, cmd>>

-----------------------------------------------------------------------------
MainThread ==
  \/ OnCreate \/ OnSaveInstanceState \/ OnOther \/ OnDestroy
  \/ \E c \in StateCmds : SetActivityState(c)
  \/ \E q \in Queues \union {NULL} : q # pendingInputQueue /\ SetInput(q)
  \/ \E w \in Windows \union {NULL} : w # pendingWindow /\ SetWindow(w)
  \/ Wait \/ Return

AppThread ==
  \/ AppEntry \/ AndroidMainReturns
  \/ ReadCmd \/ PreExecCmd \/ OnAppCmd \/ PostExecCmd
  \/ AppDestroy

Next == MainThread \/ AppThread

Spec == Init /\ [][Next]_vars

\* Both threads are scheduled; the system need not make another callback.
FairSpec == Spec /\ WF_vars(AppThread) /\ WF_vars(Wait \/ Return)

-----------------------------------------------------------------------------
(* Properties.                                                             *)

\* Every variable has its type.
TypeOK ==
  /\ polls \in AppKinds /\ call \in Calls \union {"none"} /\ asleep \in BOOLEAN /\ calls \in 0..MaxCalls
  /\ pipe \in Seq(Cmds) /\ Len(pipe) <= MaxPipe
  /\ running \in BOOLEAN /\ stateSaved \in BOOLEAN
  /\ destroyed \in BOOLEAN /\ destroyRequested \in BOOLEAN
  /\ window \in Windows \union {NULL} /\ pendingWindow \in Windows \union {NULL}
  /\ inputQueue \in Queues \union {NULL} /\ pendingInputQueue \in Queues \union {NULL}
  /\ activityState \in StateCmds \union {NoCmd}
  /\ savedState \in NoState..MaxCalls /\ handed \in NoState..MaxCalls /\ made \in NotAsked..MaxCalls
  /\ apc \in {"none", "entry", "main", "read", "handle", "handled", "ended"}
  /\ cmd \in Cmds \union {NoCmd}
  /\ surfaces \subseteq Windows /\ freed \in BOOLEAN

\* The app never holds a window the system has taken back: onNativeWindowDestroyed
\* returns only after the app thread has let the window go.
HeldWindowIsLive == window # NULL => window \in surfaces

\* While the app handles INIT_WINDOW or TERM_WINDOW there is a window: the one it
\* has just been given, and the one it is about to lose.
HandlerSeesWindow ==
  apc \in {"handle", "handled"} /\ cmd \in {"INIT_WINDOW", "TERM_WINDOW"}
    => window # NULL

\* One window never takes the place of another under the app's hands: it is told
\* of the end of the first before it gets the second, however fast the system is.
WindowsOneByOne == [][window # NULL => window' \in {window, NULL}]_vars

\* Between two callbacks the app has what the system gave it last.
InSyncBetweenCallbacks ==
  call = "none" => window = pendingWindow /\ inputQueue = pendingInputQueue

\* The app thread is done with android_app before it is freed.
AppDoneBeforeFree == freed => apc = "ended"

\* onSaveInstanceState returns what the app stored for this call and nothing
\* older: neither the state the activity was created with nor one of a call before.
SavesWhatWasMade ==
  [][call = "save_state" /\ call' = "none" => handed' = made]_vars

\* A command in the pipe, and one that android_app_pre_exec_cmd has still to see.
Queued(c) == \E i \in 1..Len(pipe) : pipe[i] = c
Unseen(c) == Queued(c) \/ (cmd = c /\ apc = "read")

\* What makes the condition of a callback true is still to come.
Due(c) ==
  CASE c = "create"     -> apc = "entry"
    [] c = "set_input"  -> Unseen("INPUT_CHANGED")
    [] c = "set_window" -> IF pendingWindow # NULL THEN Unseen("INIT_WINDOW")
                           ELSE Queued("TERM_WINDOW") \/ cmd = "TERM_WINDOW"
    [] c = "save_state" -> Queued("SAVE_STATE") \/ cmd = "SAVE_STATE"
    [] c = "free"       -> Unseen("DESTROY") \/ (destroyRequested /\ apc # "ended")
    [] c \in StateCmds  -> Unseen(c)

\* The main thread sleeps in pthread_cond_wait only while the condition of its
\* callback is false, so no broadcast came too early or is missing; if the app
\* polls, the command that makes it true is in the pipe or in its hands, and it
\* reads the pipe unless it is about to end for android_app_free.
SleepIsAnswered ==
  asleep =>
    /\ call # "none" /\ ~Done(call)
    /\ polls => Due(call) /\ apc # "ended" /\ (destroyRequested => call = "free")

\* With android_main of adapter.c no callback that waits for the app thread returns
\* after ANativeActivity_onCreate, whatever the system calls: the main thread stays
\* in the first of them.  Those that only write a command (OnOther) do return.
NeverReturnsUnpolled ==
  [][~polls /\ call \notin {"none", "create"} => call' = call]_vars

\* Every callback returns if the app thread polls for commands: no wait misses
\* its broadcast, and every condition a callback waits for becomes true.
ReturnsWhenPolled == polls /\ call # "none" ~> call = "none"

\* Every callback of the activity returns.
CallbacksReturn == call # "none" ~> call = "none"

=============================================================================
