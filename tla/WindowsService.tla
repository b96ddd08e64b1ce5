--------------------------- MODULE WindowsService ---------------------------
(***************************************************************************)
(* The program as a Windows service (src/src/service_windows.go, main.go): *)
(* Execute, which the service control manager (SCM) talks to, the          *)
(* goroutine in which it runs the application, and the tools that install, *)
(* start, stop and uninstall the service: the interactive menu, which acts *)
(* on the status it has shown before, and the option -uninstall.           *)
(*                                                                         *)
(* The SCM is external. It sends a stop only to a service that is running, *)
(* starts only one that is stopped, and removes one that is marked for     *)
(* deletion when it has stopped and nobody holds a handle of it. A service *)
(* whose last process is still there is not started again.                 *)
(***************************************************************************)
CONSTANTS
    Tools,    \* processes of an operator: menus, and calls of -uninstall
    Nothing   \* no control request, no action

VARIABLES
    scm,      \* the service as the SCM sees it
    marked,   \* it is marked for deletion
    process,  \* where the process of the service is
    app,      \* the goroutine that runs App.Init and App.Run
    logBlocked, \* a rotation of the log holds RotatingLogger.mu, for good
    request,  \* the control that the SCM has sent and Execute has not read
    tool      \* of each tool: the action it will take next

serviceVars == <<scm, marked, process, app, logBlocked, request, tool>>

MenuActions == {"install", "start", "stop"}

WindowsTypeOK ==
    /\ scm \in {"absent", "stopped", "starting", "running", "stopping"}
    /\ marked \in BOOLEAN
    /\ process \in {"none", "main", "begun", "loop", "returned", "closing"}
    /\ logBlocked \in BOOLEAN
    /\ app \in {"none", "running", "failed"}
    /\ request \in {"stop", "interrogate", Nothing}
    /\ tool \in [Tools -> MenuActions \cup {"start installed", "delete", Nothing}]

ServiceInit ==
    /\ scm \in {"absent", "stopped"}
    /\ marked = FALSE
    /\ process = "none" /\ app = "none" /\ logBlocked = FALSE /\ request = Nothing
    /\ tool = [u \in Tools |-> Nothing]

-----------------------------------------------------------------------------
(* The SCM: what Start, Control, CreateService and Delete do                *)

Installed == scm # "absent"
CanStart == scm = "stopped" /\ ~marked /\ process = "none"
CanStop == scm = "running" /\ request = Nothing

StartIf(possible) ==
    /\ scm' = IF possible THEN "starting" ELSE scm
    /\ process' = IF possible THEN "main" ELSE process

StopIf(possible) == request' = IF possible THEN "stop" ELSE request

-----------------------------------------------------------------------------
(* The process of the service                                               *)

\* main: the configuration or the log cannot be opened, and Execute is not reached.
MainFails ==
    /\ process = "main"
    /\ process' = "none"
    /\ scm' = "stopped"
    /\ UNCHANGED <<marked, app, logBlocked, request, tool>>

\* Execute reports StartPending, and runs the application in a goroutine.
ExecuteBegins ==
    /\ process = "main"
    /\ process' = "begun"
    /\ app' = "running"
    /\ UNCHANGED <<scm, marked, logBlocked, request, tool>>

\* Execute reports Running, whatever has become of the application.
ReportRunning ==
    /\ process = "begun"
    /\ process' = "loop"
    /\ scm' = "running"
    /\ UNCHANGED <<marked, app, logBlocked, request, tool>>

\* Init or Run has returned an error, or has panicked: only this goroutine ends.
AppFails ==
    /\ app = "running"
    /\ app' = "failed"
    /\ UNCHANGED <<scm, marked, process, logBlocked, request, tool>>

\* The log is rotated inside a line that is logged (LogRotation.tla): whoever logs
\* or closes the log from now on waits. Execute logs nothing.
LogBlocks ==
    /\ app # "none" /\ ~logBlocked
    /\ logBlocked' = TRUE
    /\ UNCHANGED <<scm, marked, process, app, request, tool>>

\* Mutant of HandleRequest: Execute waits for the application to end.
HandleRequestWaits ==
    /\ process = "loop" /\ request # Nothing
    /\ request = "stop" => app = "failed"
    /\ request' = Nothing
    /\ process' = IF request = "stop" THEN "returned" ELSE process
    /\ scm' = IF request = "stop" THEN "stopping" ELSE scm
    /\ UNCHANGED <<marked, app, logBlocked, tool>>

\* The loop: a stop or shutdown is answered with StopPending and ends Execute, the
\* question for the status with the status.
HandleRequest ==
    /\ process = "loop" /\ request # Nothing
    /\ request' = Nothing
    /\ process' = IF request = "stop" THEN "returned" ELSE process
    /\ scm' = IF request = "stop" THEN "stopping" ELSE scm
    /\ UNCHANGED <<marked, app, logBlocked, tool>>

\* svc.Run reports that the service has stopped, and main returns: it has yet to
\* close the log. The goroutines go on.
ServiceStopped ==
    /\ process = "returned"
    /\ process' = "closing"
    /\ scm' = "stopped"
    /\ UNCHANGED <<marked, app, logBlocked, request, tool>>

Gone ==
    /\ process' = "none" /\ app' = "none" /\ logBlocked' = FALSE /\ request' = Nothing
    /\ scm' = IF Installed THEN "stopped" ELSE "absent"
    /\ UNCHANGED <<marked, tool>>

\* main has closed the log, for which it needs its lock, and every goroutine ends.
ProcessEnds == process = "closing" /\ ~logBlocked /\ Gone

\* A goroutine without a recover panics, or the process is killed.
Crash == process \in {"begun", "loop", "returned", "closing"} /\ Gone

-----------------------------------------------------------------------------
(* The tools                                                                *)

\* getServiceStatus and what the menu offers for it.
ActionFor ==
    CASE scm = "absent" -> "install"
      [] scm = "stopped" -> "start"
      [] scm = "running" -> "stop"
      [] OTHER -> "install"

ShowMenu(u) ==
    /\ tool[u] = Nothing
    /\ tool' = [tool EXCEPT ![u] = ActionFor]
    /\ UNCHANGED <<scm, marked, process, app, logBlocked, request>>

\* Q ends the menu.
Quit(u) ==
    /\ tool[u] \in MenuActions
    /\ tool' = [tool EXCEPT ![u] = Nothing]
    /\ UNCHANGED <<scm, marked, process, app, logBlocked, request>>

\* Enter, some time later. An installed service is started in a second step.
PressEnter(u) ==
    /\ tool[u] \in MenuActions
    /\ LET installs == tool[u] = "install" /\ ~Installed
       IN  /\ tool' = [tool EXCEPT ![u] = IF installs THEN "start installed" ELSE Nothing]
           /\ IF installs THEN scm' = "stopped" /\ process' = process
              ELSE StartIf(tool[u] = "start" /\ CanStart)
           /\ StopIf(tool[u] = "stop" /\ CanStop)
    /\ UNCHANGED <<marked, app, logBlocked>>

StartInstalled(u) ==
    /\ tool[u] = "start installed"
    /\ tool' = [tool EXCEPT ![u] = Nothing]
    /\ StartIf(CanStart)
    /\ UNCHANGED <<marked, app, logBlocked, request>>

\* uninstallService: the error of Stop is not looked at; two seconds to stop.
UninstallBegins(u) ==
    /\ tool[u] = Nothing
    /\ Installed
    /\ StopIf(CanStop)
    /\ tool' = [tool EXCEPT ![u] = "delete"]
    /\ UNCHANGED <<scm, marked, process, app, logBlocked>>

\* Delete, which only marks a service that others have open or that runs; the
\* handle is closed.
UninstallDeletes(u) ==
    /\ tool[u] = "delete"
    /\ tool' = [tool EXCEPT ![u] = Nothing]
    /\ marked' = Installed
    /\ UNCHANGED <<scm, process, app, logBlocked, request>>

\* The SCM removes what is marked.
Removed ==
    /\ marked /\ scm = "stopped"
    /\ \A u \in Tools : tool[u] # "delete"
    /\ scm' = "absent"
    /\ marked' = FALSE
    /\ UNCHANGED <<process, app, logBlocked, request, tool>>

\* The SCM asks for the status.
Interrogate ==
    /\ scm = "running" /\ request = Nothing
    /\ request' = "interrogate"
    /\ UNCHANGED <<scm, marked, process, app, logBlocked, tool>>

\* The machine goes down and comes up: a service that is installed is started.
Boot ==
    /\ scm' = IF ~Installed \/ marked THEN "absent" ELSE "starting"
    /\ process' = IF ~Installed \/ marked THEN "none" ELSE "main"
    /\ marked' = FALSE
    /\ app' = "none" /\ logBlocked' = FALSE /\ request' = Nothing
    /\ tool' = [u \in Tools |-> Nothing]

-----------------------------------------------------------------------------
ProcessStep ==
    MainFails \/ ExecuteBegins \/ ReportRunning \/ HandleRequest \/ ServiceStopped
    \/ ProcessEnds
ToolStep ==
    \E u \in Tools :
        ShowMenu(u) \/ Quit(u) \/ PressEnter(u) \/ StartInstalled(u)
        \/ UninstallBegins(u) \/ UninstallDeletes(u)

\* What ends the application, what begins it, and what leaves it as it is.
Ending == AppFails \/ ProcessEnds \/ Crash \/ Boot
Lasting ==
    \/ MainFails \/ ReportRunning \/ LogBlocks \/ HandleRequest \/ ServiceStopped
    \/ ToolStep \/ Removed \/ Interrogate

-----------------------------------------------------------------------------
\* A stop that the SCM has passed on ends the process that it was sent to, whether
\* the application serves, has failed or hangs: only a blocked log can keep the
\* process, as main closes the log last, and then the SCM has been told of the stop.
StopEnds ==
    request = "stop" ~>
        \/ process \in {"none", "main"}
        \/ process = "closing" /\ logBlocked /\ scm \in {"stopped", "absent"}

\* A service that is marked for deletion and is stopped, or is being stopped, is
\* removed once nobody begins another uninstall: no menu that still shows it
\* starts it again in between, and no tool keeps a handle.
UninstallRemoves ==
    <>[][\A u \in Tools : ~UninstallBegins(u)]_serviceVars =>
        (marked /\ (request = "stop" \/ scm \in {"stopping", "stopped"}) ~> scm = "absent")

\* The menu offers to install a service again that is in another state than it
\* knows. Not so: installService refuses, as the service exists.
ReinstallReplaces ==
    [][\A u \in Tools : PressEnter(u) /\ tool[u] = "install" => tool'[u] = "start installed"]_serviceVars

\* A service that is running serves. Not so once Init or Run has returned an error.
RunningMeansServing == scm = "running" => app = "running"
=============================================================================
