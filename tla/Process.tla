------------------------------ MODULE Process ------------------------------
(***************************************************************************)
(* cmd/webtraffik/main.go: run starts the dashboard server and App.Run,    *)
(* waits for whichever ends first or for a signal, and takes the other     *)
(* down.  stop, of signal.NotifyContext, cancels the context that both     *)
(* were given.  SIGHUP reloads the management allow file meanwhile.        *)
(***************************************************************************)
EXTENDS Naturals

CONSTANTS
    DrainMax,   \* 20 seconds
    ShutdownMax \* 5 seconds: Server.ServeListener waits as long for open requests

ASSUME ProcessAssumption == DrainMax \in Nat \ {0} /\ ShutdownMax \in Nat /\ ShutdownMax < DrainMax

VARIABLES
    cancelled,  \* the context
    srv,        \* srv.Serve: "up", "stopping", "returned" or "failed"
    app,        \* App.Run: "up" or "returned"
    main,       \* where run is: its select, a wait, or returned
    waited,     \* ticks since the context was cancelled
    hups        \* the SIGHUP goroutine: "listening", "reloading" or "gone"

procVars == <<cancelled, srv, app, main, waited, hups>>

ProcInit ==
    /\ cancelled = FALSE /\ srv = "up" /\ app = "up" /\ main = "select" /\ waited = 0
    /\ hups = "listening"

\* SIGINT or SIGTERM.
Signal ==
    /\ ~cancelled /\ cancelled' = TRUE
    /\ UNCHANGED <<srv, app, main, waited, hups>>

\* The listen fails (port in use), or Serve does later.
ServeFails ==
    /\ srv = "up" /\ srv' = "failed"
    /\ UNCHANGED <<cancelled, app, main, waited, hups>>

\* ServeListener: Shutdown, and Close when it takes too long.
ServeStops ==
    /\ cancelled /\ srv = "up" /\ srv' = "stopping"
    /\ UNCHANGED <<cancelled, app, main, waited, hups>>

ServeReturns ==
    /\ srv = "stopping" /\ srv' = "returned"
    /\ UNCHANGED <<cancelled, app, main, waited, hups>>

\* App.Run returns after the context ends (module Pipeline), sooner or later.
AppReturns ==
    /\ cancelled /\ app = "up" /\ app' = "returned"
    /\ UNCHANGED <<cancelled, srv, main, waited, hups>>

\* Plausible bug: the context is not cancelled.
SelectServerNoStop ==
    /\ main = "select" /\ srv \in {"returned", "failed"}
    /\ main' = "waitApp"
    /\ UNCHANGED <<cancelled, srv, app, waited, hups>>

\* case err := <-srvErr
SelectServer ==
    /\ main = "select" /\ srv \in {"returned", "failed"}
    /\ main' = "waitApp" /\ cancelled' = TRUE
    /\ UNCHANGED <<srv, app, waited, hups>>

\* case err := <-runErr
SelectApp ==
    /\ main = "select" /\ app = "returned"
    /\ main' = "waitServer" /\ cancelled' = TRUE
    /\ UNCHANGED <<srv, app, waited, hups>>

\* case <-ctx.Done()
SelectDone ==
    /\ main = "select" /\ cancelled
    /\ main' = "drain"
    /\ UNCHANGED <<cancelled, srv, app, waited, hups>>

\* Plausible bug: only the server is waited for.
ExitServerOnly ==
    /\ \/ main = "waitApp"
       \/ main = "waitServer" /\ srv \in {"returned", "failed"}
       \/ main = "drain" /\ srv \in {"returned", "failed"}
    /\ main' = "exit"
    /\ UNCHANGED <<cancelled, srv, app, waited, hups>>

\* run returns, the rest having ended.
Exit ==
    /\ \/ main = "waitApp" /\ app = "returned"
       \/ main = "waitServer" /\ srv \in {"returned", "failed"}
       \/ main = "drain" /\ app = "returned" /\ srv \in {"returned", "failed"}
    /\ main' = "exit"
    /\ UNCHANGED <<cancelled, srv, app, waited, hups>>

\* "shutdown timed out; exiting"
GiveUp ==
    /\ main = "drain" /\ waited >= DrainMax
    /\ main' = "exit"
    /\ UNCHANGED <<cancelled, srv, app, waited, hups>>

\* SIGHUP, until the goroutine has seen the context end.
Hup ==
    /\ main # "exit" /\ hups = "listening" /\ hups' = "reloading"
    /\ UNCHANGED <<cancelled, srv, app, main, waited>>

HupDone ==
    /\ main # "exit"
    /\ \/ hups = "reloading" /\ hups' = "listening"
       \/ hups = "listening" /\ cancelled /\ hups' = "gone"
    /\ UNCHANGED <<cancelled, srv, app, main, waited>>

\* The server's shutdown is cut off after ShutdownMax, and the select is prompt.
ProcTick ==
    /\ cancelled /\ waited <= DrainMax /\ main \notin {"select", "exit"}
    /\ srv # "up" /\ (srv = "stopping" => waited < ShutdownMax)
    /\ main = "drain" => waited < DrainMax
    /\ waited' = waited + 1
    /\ UNCHANGED <<cancelled, srv, app, main, hups>>

ProcPrompt ==
    ServeStops \/ ServeReturns \/ SelectServer \/ SelectApp \/ SelectDone \/ Exit \/ GiveUp \/ ProcTick

ProcNext == Signal \/ ServeFails \/ AppReturns \/ Hup \/ HupDone \/ ProcPrompt

\* Goroutines that can move do, and the server's shutdown is bounded; nothing is assumed of
\* signals or of App.Run.
ProcSpec == ProcInit /\ [][ProcNext]_procVars /\ WF_procVars(ProcPrompt)

-----------------------------------------------------------------------------
\* The process never ends under a running App.Run, whose drain would be cut short,
\* except in the shutdown that a signal began and that took DrainMax.
ExitAfterRun == main = "exit" => app = "returned" \/ waited >= DrainMax

\* A signal, or the dashboard failing ("is fatal"), ends the process, once App.Run
\* returns; a shutdown begun by a signal ends even if App.Run hangs.
ProcessExits ==
    /\ (cancelled \/ srv = "failed") /\ app = "returned" ~> main = "exit"
    /\ srv = "failed" ~> cancelled
    /\ main = "drain" ~> main = "exit"

=============================================================================
