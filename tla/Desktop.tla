------------------------------- MODULE Desktop -------------------------------
(***************************************************************************)
(* The desktop shell (desktop/app.py, single_instance.py, tray.py,         *)
(* hotkey.py): processes that compete for the single-instance port, the    *)
(* second of which asks the first to show its window, and in each the      *)
(* threads that show, hide and tear down: the main one with the window's   *)
(* loop, the lock's server, the tray, the hotkey and JavaScript.           *)
(*                                                                         *)
(* Exiting, like a crash, frees a process's port and ends its server.      *)
(* Not modelled: notifications, dialogs, updates, the window's size.       *)
(***************************************************************************)
EXTENDS Naturals, FiniteSets

CONSTANTS
    Processes, \* launches of the program
    MaxClicks  \* bound: what users do to windows, trays and keys

ASSUME DesktopAssumption == MaxClicks \in Nat

Nobody == "nobody"
ASSUME NobodyAssumption == Nobody \notin Processes

\* The threads of a process that show or hide its window.
Hands == {"serve", "tray", "hotkey", "gui"}

VARIABLES
    main,    \* [process -> where its main thread is]
    options, \* [process -> how it was launched]
    port,    \* who listens on the lock's port
    knocks,  \* SHOW messages that wait there
    pidFile, \* desktop.pid
    http,    \* [process -> "none", "up", "stopping"]
    window,  \* [process -> "none", "shown", "hidden", "gone"]
    visible, \* [process -> _visible]
    tray,    \* the processes with a tray icon
    hotkey,  \* the processes with a registered hotkey
    doing,   \* [process -> [hand -> what the thread is about]]
    quit,    \* [process -> how far quit() has come, and in which thread]
    clicks   \* what users have done so far

desktopVars == <<main, options, port, knocks, pidFile, http, window, visible,
                 tray, hotkey, doing, quit, clicks>>
lockVars == <<port, knocks, pidFile>>
shell == <<window, visible, doing>>
natives == <<tray, hotkey>>

Still == [h \in Hands |-> "nothing"]
NoQuit == [at |-> "no", by |-> "nobody"]
Quitting(p) == quit[p].at # "no"
HasWindow(p) == window[p] \in {"shown", "hidden"}

DesktopInit ==
    /\ main = [p \in Processes |-> "off"]
    /\ options \in [Processes -> [mode : {"window", "browser"}, noTray : BOOLEAN, hidden : BOOLEAN]]
    /\ \A p \in Processes : options[p].hidden => options[p].mode = "window"
    /\ port = Nobody /\ knocks = 0 /\ pidFile = Nobody
    /\ http = [p \in Processes |-> "none"]
    /\ window = [p \in Processes |-> "none"]
    /\ visible = [p \in Processes |-> TRUE]
    /\ tray = {} /\ hotkey = {}
    /\ doing = [p \in Processes |-> Still]
    /\ quit = [p \in Processes |-> NoQuit]
    /\ clicks = 0

Main(p, from, to) == main[p] = from /\ main' = [main EXCEPT ![p] = to]

-----------------------------------------------------------------------------
(* A launch, up to its loop.                                               *)

StartProcess(p) ==
    /\ Main(p, "off", "acquire")
    /\ UNCHANGED <<options, lockVars, http, shell, natives, quit, clicks>>

\* SingleInstance.acquire: the bind succeeds for one process at a time.
Acquire(p) ==
    /\ IF port = Nobody
       THEN Main(p, "acquire", "write pid") /\ port' = p /\ knocks' = 0
       ELSE Main(p, "acquire", "signal") /\ UNCHANGED <<port, knocks>>
    /\ UNCHANGED <<options, pidFile, http, shell, natives, quit, clicks>>

WritePid(p) ==
    /\ Main(p, "write pid", "backend")
    /\ pidFile' = p
    /\ UNCHANGED <<options, port, knocks, http, shell, natives, quit, clicks>>

\* signal_existing: the message waits in the socket, or nobody listens.
Signal(p) ==
    /\ Main(p, "signal", "ended")
    /\ knocks' = IF port = Nobody THEN knocks ELSE knocks + 1
    /\ UNCHANGED <<options, port, pidFile, http, shell, natives, quit, clicks>>

StartBackend(p) ==
    /\ Main(p, "backend", IF options[p].mode = "window" THEN "window" ELSE "tray")
    /\ http' = [http EXCEPT ![p] = "up"]
    /\ UNCHANGED <<options, lockVars, shell, natives, quit, clicks>>

CreateWindow(p) ==
    /\ Main(p, "window", "tray")
    /\ window' = [window EXCEPT ![p] = IF options[p].hidden THEN "hidden" ELSE "shown"]
    /\ visible' = [visible EXCEPT ![p] = ~options[p].hidden]
    /\ UNCHANGED <<options, lockVars, http, doing, natives, quit, clicks>>

\* A window has a tray icon whatever the options say, if there is a tray.
StartTray(p) ==
    /\ Main(p, "tray", "hotkey")
    /\ tray' \in IF options[p].mode = "browser" /\ options[p].noTray
                 THEN {tray} ELSE {tray, tray \cup {p}}
    /\ UNCHANGED <<options, lockVars, http, shell, hotkey, quit, clicks>>

StartHotkey(p) ==
    /\ Main(p, "hotkey", "loop")
    /\ hotkey' \in {hotkey, hotkey \cup {p}}
    /\ UNCHANGED <<options, lockVars, http, shell, tray, quit, clicks>>

-----------------------------------------------------------------------------
(* Showing and hiding: the window first, _visible after it.                *)

Clicked == clicks < MaxClicks /\ clicks' = clicks + 1
Does(p, h, what) == doing' = [doing EXCEPT ![p][h] = what]
NotBusy(p, h) == doing[p][h] = "nothing"

\* Mutation: a second launch toggles the window.
ServeToggles(p) ==
    /\ port = p /\ knocks > 0 /\ NotBusy(p, "serve") /\ quit[p].at \notin {"close", "unlink"}
    /\ knocks' = knocks - 1
    /\ Does(p, "serve", IF visible[p] THEN "hide" ELSE "show")
    /\ UNCHANGED <<main, options, port, pidFile, http, window, visible, natives, quit, clicks>>

\* _serve takes a message until release() has told it to stop.
Serve(p) ==
    /\ port = p /\ knocks > 0 /\ NotBusy(p, "serve") /\ quit[p].at \notin {"close", "unlink"}
    /\ knocks' = knocks - 1
    /\ Does(p, "serve", "show")
    /\ UNCHANGED <<main, options, port, pidFile, http, window, visible, natives, quit, clicks>>

\* The tray's menu, or the hotkey's toggle_window.
Press(p) ==
    /\ Clicked
    /\ \/ \E what \in {"show", "hide"} : p \in tray /\ NotBusy(p, "tray") /\ Does(p, "tray", what)
       \/ /\ p \in hotkey /\ NotBusy(p, "hotkey")
          /\ Does(p, "hotkey", IF visible[p] THEN "hide" ELSE "show")
    /\ UNCHANGED <<main, options, lockVars, http, window, visible, natives, quit>>

\* _on_closing, the X button: the window goes, or hides when a tray has it.
PressX(p) ==
    /\ Clicked
    /\ main[p] = "loop" /\ window[p] = "shown" /\ NotBusy(p, "gui")
    /\ IF Quitting(p) \/ options[p].noTray \/ p \notin tray
       THEN window' = [window EXCEPT ![p] = "gone"] /\ UNCHANGED doing
       ELSE Does(p, "gui", "hide") /\ UNCHANGED window
    /\ UNCHANGED <<main, options, lockVars, http, visible, natives, quit>>

\* window.show() and restore(), or window.hide().  Without a window there is
\* nothing to do.
MoveWindow(p, h) ==
    /\ doing[p][h] \in {"show", "hide"}
    /\ IF HasWindow(p)
       THEN /\ window' = [window EXCEPT ![p] = IF doing[p][h] = "show" THEN "shown" ELSE "hidden"]
            /\ Does(p, h, IF doing[p][h] = "show" THEN "note shown" ELSE "note hidden")
       ELSE Does(p, h, "nothing") /\ UNCHANGED window
    /\ UNCHANGED <<main, options, lockVars, http, visible, natives, quit, clicks>>

NoteVisible(p, h) ==
    /\ doing[p][h] \in {"note shown", "note hidden"}
    /\ visible' = [visible EXCEPT ![p] = doing[p][h] = "note shown"]
    /\ Does(p, h, "nothing")
    /\ UNCHANGED <<main, options, lockVars, http, window, natives, quit, clicks>>

-----------------------------------------------------------------------------
(* quit(): hotkey, tray, server, lock, window.                             *)

QuitGoes(p, from, to) ==
    quit[p].at = from /\ quit' = [quit EXCEPT ![p].at = to]

\* From the tray's menu, also before the loop has begun and after it has ended,
\* or from the page, which the loop shows.  The tray's thread is then busy with it.
PressQuit(p) ==
    /\ Clicked
    /\ ~Quitting(p)
    /\ \/ p \in tray /\ NotBusy(p, "tray") /\ Does(p, "tray", "quit")
          /\ quit' = [quit EXCEPT ![p] = [at |-> "hotkey", by |-> "tray"]]
       \/ main[p] = "loop" /\ window[p] = "shown" /\ UNCHANGED doing
          /\ quit' = [quit EXCEPT ![p] = [at |-> "hotkey", by |-> "page"]]
    /\ UNCHANGED <<main, options, lockVars, http, window, visible, natives>>

StopHotkey(p) ==
    /\ QuitGoes(p, "hotkey", "tray")
    /\ hotkey' = hotkey \ {p}
    /\ UNCHANGED <<main, options, lockVars, http, shell, tray, clicks>>

\* The tray cannot wait for itself to end; the error is swallowed.
StopTray(p) ==
    /\ QuitGoes(p, "tray", "server")
    /\ tray' = tray \ {p}
    /\ UNCHANGED <<main, options, lockVars, http, shell, hotkey, clicks>>

\* Mutation: the lock is given back and the server goes on.
ForgetServer(p) ==
    /\ QuitGoes(p, "server", "lock")
    /\ UNCHANGED <<main, options, lockVars, http, shell, natives, clicks>>

\* uvicorn is told to stop; it stops when it has.
StopServer(p) ==
    /\ QuitGoes(p, "server", "lock")
    /\ http' = [http EXCEPT ![p] = "stopping"]
    /\ UNCHANGED <<main, options, lockVars, shell, natives, clicks>>

ServerStops(p) ==
    /\ http[p] = "stopping"
    /\ http' = [http EXCEPT ![p] = "none"]
    /\ UNCHANGED <<main, options, lockVars, shell, natives, quit, clicks>>

\* release(): _serve is told to stop and waited for, the socket is closed,
\* then the PID file goes, whoever wrote it.
StopServe(p) ==
    /\ QuitGoes(p, "lock", "close")
    /\ UNCHANGED <<main, options, lockVars, http, shell, natives, clicks>>

ClosePort(p) ==
    /\ QuitGoes(p, "close", "unlink")
    /\ port' = IF port = p THEN Nobody ELSE port
    /\ knocks' = IF port = p THEN 0 ELSE knocks
    /\ UNCHANGED <<main, options, pidFile, http, shell, natives, clicks>>

Unlink(p) ==
    /\ QuitGoes(p, "unlink", "destroy")
    /\ pidFile' = Nobody
    /\ UNCHANGED <<main, options, port, knocks, http, shell, natives, clicks>>

DestroyWindow(p) ==
    /\ QuitGoes(p, "destroy", "done")
    /\ window' = [window EXCEPT ![p] = IF HasWindow(p) THEN "gone" ELSE window[p]]
    /\ UNCHANGED <<main, options, lockVars, http, visible, doing, natives, clicks>>

\* webview.start returns when the window is gone; what a browser is served
\* from ends with a KeyboardInterrupt only.
LoopEnds(p) ==
    /\ Main(p, "loop", "finally")
    /\ window[p] = "gone"
    /\ UNCHANGED <<options, lockVars, http, shell, natives, quit, clicks>>

Interrupt(p) ==
    /\ Clicked
    /\ options[p].mode = "browser" /\ Main(p, "loop", "finally")
    /\ UNCHANGED <<options, lockVars, http, shell, natives, quit>>

\* The main thread's quit(), which does nothing when another has begun.
Finally(p) ==
    /\ main[p] = "finally" /\ ~Quitting(p)
    /\ quit' = [quit EXCEPT ![p] = [at |-> "hotkey", by |-> "main"]]
    /\ UNCHANGED <<main, options, lockVars, http, shell, natives, clicks>>

\* What is left of a process that has ended.
Gone(p) ==
    /\ main' = [main EXCEPT ![p] = "ended"]
    /\ port' = IF port = p THEN Nobody ELSE port
    /\ knocks' = IF port = p THEN 0 ELSE knocks
    /\ http' = [http EXCEPT ![p] = "none"]
    /\ window' = [window EXCEPT ![p] = "none"]
    /\ tray' = tray \ {p} /\ hotkey' = hotkey \ {p}
    /\ doing' = [doing EXCEPT ![p] = Still]
    /\ quit' = [quit EXCEPT ![p] = NoQuit]
    /\ UNCHANGED <<options, pidFile, visible>>

\* The main thread returns, and the others end with it, also the one that
\* is in the middle of quit().
Exit(p) ==
    /\ main[p] = "finally" /\ Quitting(p)
    /\ quit[p].by = "main" => quit[p].at = "done"
    /\ Gone(p) /\ UNCHANGED clicks

Killed(p) ==
    /\ Clicked
    /\ main[p] \notin {"off", "ended"}
    /\ Gone(p)

QuitStep(p) ==
    \/ StopHotkey(p) \/ StopTray(p) \/ StopServer(p) \/ StopServe(p)
    \/ ClosePort(p) \/ Unlink(p) \/ DestroyWindow(p)

MainStep(p) ==
    \/ Acquire(p) \/ WritePid(p) \/ Signal(p) \/ StartBackend(p) \/ CreateWindow(p)
    \/ StartTray(p) \/ StartHotkey(p) \/ LoopEnds(p) \/ Finally(p) \/ Exit(p)

DesktopNext ==
    \E p \in Processes :
      \/ StartProcess(p) \/ MainStep(p) \/ QuitStep(p) \/ ServerStops(p) \/ Serve(p)
      \/ \E h \in Hands : MoveWindow(p, h) \/ NoteVisible(p, h)
      \/ Press(p) \/ PressX(p) \/ PressQuit(p) \/ Interrupt(p) \/ Killed(p)

\* Threads that have something to do go on; users need not do anything.
DesktopFairness ==
    \A p \in Processes :
      /\ WF_desktopVars(MainStep(p)) /\ WF_desktopVars(QuitStep(p))
      /\ WF_desktopVars(Serve(p))
      /\ \A h \in Hands : WF_desktopVars(MoveWindow(p, h) \/ NoteVisible(p, h))

DesktopSpec == DesktopInit /\ [][DesktopNext]_desktopVars /\ DesktopFairness

-----------------------------------------------------------------------------
(* Properties.                                                             *)

\* A server that nobody has told to stop belongs to the process that holds the
\* single-instance port, also while one process takes over from another that
\* quits, is killed or closes its window: two never serve side by side.
OnlyTheOwnerServes ==
    \A p \in Processes : http[p] = "up" => port = p

\* quit(), in whatever thread, ends the process that has a window, unless it
\* is a thread of a browser's server, whose main loop nobody tells.
QuitEnds ==
    \A p \in Processes :
      (Quitting(p) /\ options[p].mode = "window") ~> (main[p] = "ended")

\* A second launch brings the window of the first forward, if it is there by
\* the time the message is read and nobody quits.
SecondLaunchShows ==
    \A p \in Processes :
      (port = p /\ knocks > 0 /\ HasWindow(p)) ~>
         (window[p] # "hidden" \/ Quitting(p) \/ main[p] = "ended")

\* "It lets --status style tooling report who owns the lock": not so when the
\* process before it has closed its port and deletes the PID file after that.
PidNamesTheOwner ==
    \A p \in Processes : http[p] = "up" => pidFile = p

\* "--no-tray: do not create a tray icon": not so for a window.
NoTrayMeansNone == \A p \in tray : ~options[p].noTray

\* Not a property of the code: _visible says what the window is when no
\* thread is about to move it.
VisibleIsTrue ==
    \A p \in Processes : doing[p] = Still /\ HasWindow(p) => (visible[p] <=> window[p] = "shown")

\* Not a property of the code: quit() ends the process that serves a browser.
QuitEndsBrowser ==
    \A p \in Processes : Quitting(p) ~> (main[p] = "ended")

\* A program that is told to end does, and one that is started a second time
\* shows the window of the first.
DesktopServesUsers == QuitEnds /\ SecondLaunchShows
=============================================================================
