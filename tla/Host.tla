-------------------------------- MODULE Host --------------------------------
(***************************************************************************)
(* The service and the sessions of its web page: sessions exist as long as *)
(* the application runs. They end with it, and a browser's cookie is worth *)
(* nothing to the next process, which also reads the password again.       *)
(***************************************************************************)
EXTENDS Sessions, WindowsService

hostVars == <<sessionVars, serviceVars>>

HostInit == SessionsInit /\ ServiceInit

\* App.Run makes a new token store and registers the routes.
Serve ==
    /\ ExecuteBegins
    /\ NoSessions
    /\ Register

StopServing ==
    /\ Ending
    /\ NoSessions
    /\ UNCHANGED <<password, captured>>

HostNext ==
    \/ Serve
    \/ StopServing
    \/ Lasting /\ UNCHANGED sessionVars
    \/ app = "running" /\ SessionStep /\ UNCHANGED serviceVars

HostSpec == HostInit /\ [][HostNext]_hostVars

\* The process runs, the SCM removes what it may, and a tool that has begun to
\* uninstall goes on. Nothing is assumed of the operator, of logins, failures,
\* crashes and boots, and a process whose log is blocked does not end by itself.
HostFairSpec ==
    /\ HostSpec
    /\ WF_hostVars(HandleRequest /\ UNCHANGED sessionVars)
    /\ WF_hostVars(ServiceStopped /\ UNCHANGED sessionVars)
    /\ WF_hostVars(StopServing /\ ProcessEnds)
    /\ WF_hostVars(Removed /\ UNCHANGED sessionVars)
    /\ \A u \in Tools : WF_hostVars(UninstallDeletes(u) /\ UNCHANGED sessionVars)
=============================================================================
