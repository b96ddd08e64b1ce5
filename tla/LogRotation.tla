---------------------------- MODULE LogRotation ----------------------------
(***************************************************************************)
(* The rotating log file (src/src/log/logger.go) under Go's standard       *)
(* logger. Every goroutine logs through log.Printf, which holds the        *)
(* standard logger's own mutex while it calls RotatingLogger.Write. Write  *)
(* takes the rotating logger's mutex and, when the period has changed,     *)
(* opens the next file and calls log.SetOutput, which takes the standard   *)
(* logger's mutex again.                                                   *)
(***************************************************************************)
EXTENDS Integers

CONSTANTS
    Goroutines,
    Main,        \* one of them: the goroutine of main(), which creates the logger
    Free,        \* none of them: no goroutine owns the mutex
    MaxPeriod    \* bound: periods that pass

NoFile == -1

VARIABLES
    pc,       \* where each goroutine is
    outMu,    \* owner of the standard logger's mutex
    mu,       \* owner of RotatingLogger.mu
    period,   \* the current day, week or month
    current   \* the period of the open file, or NoFile: RotatingLogger.current

logVars == <<pc, outMu, mu, period, current>>

LogTypeOK ==
    /\ pc \in [Goroutines -> {"idle", "printf", "write", "rotate", "setOutput", "line"}]
    /\ outMu \in Goroutines \cup {Free}
    /\ mu \in Goroutines \cup {Free}
    /\ period \in 0 .. MaxPeriod
    /\ current \in NoFile .. period

\* main is in New, which calls rotate without a mutex; nothing else runs yet.
LogInit ==
    /\ pc = [g \in Goroutines |-> IF g = Main THEN "rotate" ELSE "idle"]
    /\ outMu = Free
    /\ mu = Free
    /\ period = 0
    /\ current = NoFile

At(g, here, there) == pc[g] = here /\ pc' = [pc EXCEPT ![g] = there]

\* g is in rotate on behalf of New, not of a line it logs.
Creating(g) == pc[g] \in {"rotate", "setOutput"} /\ mu # g

\* The other goroutines are started after main has its logger.
Printf(g) ==
    /\ At(g, "idle", "printf")
    /\ ~Creating(Main)
    /\ UNCHANGED <<outMu, mu, period, current>>

\* log.Printf locks the standard logger and calls Write.
LockStandard(g) ==
    /\ At(g, "printf", "write")
    /\ outMu = Free
    /\ outMu' = g
    /\ UNCHANGED <<mu, period, current>>

LockRotating(g) ==
    /\ At(g, "write", "rotate")
    /\ mu = Free
    /\ mu' = g
    /\ UNCHANGED <<outMu, period, current>>

\* rotate: the file is still the right one, or the next one cannot be opened
\* (in New the program ends instead).
KeepFile(g) ==
    /\ At(g, "rotate", "line")
    /\ ~Creating(g)
    /\ UNCHANGED <<outMu, mu, period, current>>

\* rotate: the next file is opened and is the current one.
OpenNext(g) ==
    /\ At(g, "rotate", "setOutput")
    /\ current # period
    /\ current' = period
    /\ UNCHANGED <<outMu, mu, period>>

\* log.SetOutput(l): lock, assign, unlock; then rotate returns to New or Write.
SetOutput(g) ==
    /\ At(g, "setOutput", IF Creating(g) THEN "idle" ELSE "line")
    /\ outMu = Free
    /\ UNCHANGED <<outMu, mu, period, current>>

\* The line is written, to the file or to the fallback; both mutexes are left.
WriteLine(g) ==
    /\ At(g, "line", "idle")
    /\ outMu' = Free
    /\ mu' = Free
    /\ UNCHANGED <<period, current>>

Midnight ==
    /\ period < MaxPeriod
    /\ period' = period + 1
    /\ UNCHANGED <<pc, outMu, mu, current>>

LogStep(g) ==
    \/ LockStandard(g) \/ LockRotating(g) \/ KeepFile(g) \/ OpenNext(g)
    \/ SetOutput(g) \/ WriteLine(g)

LogNext == Midnight \/ \E g \in Goroutines : Printf(g) \/ LogStep(g)

\* Mutexes are granted to every goroutine that waits long enough (Go's mutexes
\* do not starve a waiter); nobody has to log.
LogFairSpec ==
    LogInit /\ [][LogNext]_logVars /\ \A g \in Goroutines : SF_logVars(LogStep(g))

-----------------------------------------------------------------------------
\* README.md:216: logs are rotated by period, and a goroutine that logs goes on.
\* Broken by the first rotation: the goroutine that rotates waits in SetOutput
\* for the mutex it holds itself, and every other one waits in Printf.
LoggingEnds == \A g \in Goroutines : pc[g] # "idle" ~> pc[g] = "idle"
=============================================================================
