------------------------------ MODULE AppServe ------------------------------
(***************************************************************************)
(* appcmd: serve starts an application, runs the standard HTTP server over *)
(* it and gives everything back.  The connection tracker learns of every   *)
(* connection from net/http's ConnState hook and from its own Close; serve *)
(* waits for the tracker to become empty before it stops the application.  *)
(* The process manager is optional.                                        *)
(*                                                                         *)
(* A request of ProcessManager is here the one request of a connection:    *)
(* conn says where the connection is, request where its handler is.  The   *)
(* HTTP server is external and is modelled from what serve relies on.      *)
(***************************************************************************)
EXTENDS ProcessManager

Conns == Requests

VARIABLES
    managed,                \* options.Process is set
    pc,                     \* where serve is
    cancelled,              \* the context of serve is done
    app,                    \* the Host behind the application
    clean,                  \* no error has been joined into the result
    baseDone,               \* the context every request derives from is cancelled
    doomed,                 \* the connections closeHijacked has still to close
    loop,                   \* where the goroutine of server.Serve is
    listening,              \* the listener is open
    conn,                   \* where the server has a connection
    open,                   \* the connections whose socket is open
    tracked,                \* connectionTracker.active
    hijacked,               \* connectionTracker.hijacked
    closing,                \* connectionTracker.closing
    closeErr,               \* connectionTracker.err is set
    signalled               \* the channel wait selects on has been closed

trackerVars == <<tracked, hijacked, closing, signalled>>
connVars == <<conn, open, closeErr>>
loopVars == <<loop, listening>>
serveVars == <<managed, pc, cancelled, app, clean, baseDone, doomed>>
vars == <<managerVars, trackerVars, connVars, loopVars, serveVars>>

ConnStates ==
    {"none", "accepted", "new", "busy", "idle", "end", "gone",  \* owned by the server
     "hijacked", "late", "forget", "taken"}                     \* owned by the handler

Labels ==
    {"start", "assemble", "handler", "listener", "markReady", "abort", "serving",
     "drainHTTP", "shutting", "closeHijacked", "closeDoomed", "awaitServe", "wait",
     "selecting", "drain", "draining", "stopApp", "markStopped", "returned"}

TypeOK ==
    /\ ManagerTypeOK
    /\ managed \in BOOLEAN /\ cancelled \in BOOLEAN /\ clean \in BOOLEAN /\ baseDone \in BOOLEAN
    /\ pc \in Labels
    /\ app \in {"none", "running", "stopped", "broken"}
    /\ loop \in {"off", "accepting", "holding", "returned", "failed"}
    /\ listening \in BOOLEAN
    /\ conn \in [Conns -> ConnStates]
    /\ open \subseteq Conns /\ doomed \subseteq Conns
    /\ tracked \subseteq Conns /\ hijacked \subseteq Conns
    /\ closing \in BOOLEAN /\ closeErr \in BOOLEAN /\ signalled \in BOOLEAN

Init ==
    /\ ManagerInit
    /\ managed \in BOOLEAN
    /\ pc = "start" /\ cancelled = FALSE /\ app = "none" /\ clean = TRUE /\ baseDone = FALSE
    /\ loop = "off" /\ listening = FALSE
    /\ conn = [c \in Conns |-> "none"] /\ open = {} /\ doomed = {}
    /\ tracked = {} /\ hijacked = {} /\ closing = FALSE /\ closeErr = FALSE /\ signalled = FALSE

-----------------------------------------------------------------------------
(* The connection tracker: the critical sections of connectionTracker.mu.  *)

(* notifyLocked *)
Notify == signalled' = TRUE

ObserveNew(c) == tracked' = tracked \cup {c} /\ Notify /\ UNCHANGED <<hijacked, closing>>

(* Mutant: a closed connection is forgotten without a signal. *)
ObserveClosedQuietly(c) ==
    tracked' = tracked \ {c} /\ hijacked' = hijacked \ {c} /\ UNCHANGED <<closing, signalled>>

ObserveClosed(c) ==
    tracked' = tracked \ {c} /\ hijacked' = hijacked \ {c} /\ Notify /\ UNCHANGED closing

(* A hijacked connection is remembered, unless the hijacked connections    *)
(* have been collected already: then its observer closes it.               *)
ObserveHijacked(c) ==
    /\ tracked' = tracked \ {c}
    /\ hijacked' = IF closing THEN hijacked ELSE hijacked \cup {c}
    /\ Notify
    /\ UNCHANGED closing

(* trackedConnection.Close ends with forget. *)
ForgetConn(c) ==
    /\ hijacked' = hijacked \ {c}
    /\ IF c \in hijacked THEN Notify ELSE UNCHANGED signalled
    /\ UNCHANGED <<tracked, closing>>

-----------------------------------------------------------------------------
(* The HTTP server and its connections. *)

Move(c, s) == conn' = [conn EXCEPT ![c] = s]

(* Closing sockets: an error is recorded and the socket is gone all the    *)
(* same; a second Close reports net.ErrClosed, which is no error.          *)
Close(cs) ==
    /\ open' = open \ cs
    /\ closeErr' \in IF open \cap cs = {} THEN {closeErr} ELSE {closeErr, TRUE}

(* server.Serve holds a connection between Accept and the StateNew hook. *)
Accept(c) ==
    /\ loop = "accepting" /\ listening
    /\ conn[c] = "none"
    /\ loop' = "holding" /\ Move(c, "accepted") /\ open' = open \cup {c}
    /\ UNCHANGED <<managerVars, trackerVars, listening, closeErr, serveVars>>

Track(c) ==
    /\ conn[c] = "accepted"
    /\ ObserveNew(c)
    /\ Move(c, "new") /\ loop' = "accepting"
    /\ UNCHANGED <<managerVars, listening, open, closeErr, serveVars>>

(* Serve returns when its listener has been closed, or cannot accept. *)
ServeEnds ==
    /\ loop = "accepting"
    /\ loop' \in IF listening THEN {"failed"} ELSE {"returned"}
    /\ listening' = FALSE
    /\ UNCHANGED <<managerVars, trackerVars, connVars, serveVars>>

(* A request is read.  The Middleware, if there is one, asks the manager.  *)
ReadRequest(c) ==
    /\ conn[c] = "new" /\ c \in open
    /\ Move(c, "busy")
    /\ IF managed
       THEN Arrive(c)
       ELSE /\ request' = [request EXCEPT ![c] = "inside"]
            /\ UNCHANGED <<phase, drained, active, probeVars>>
    /\ UNCHANGED <<trackerVars, loopVars, open, closeErr, serveVars>>

Admit(c) ==
    /\ Acquire(c)
    /\ UNCHANGED <<trackerVars, connVars, loopVars, serveVars>>

HandlerReturns(c) ==
    /\ IF managed
       THEN Release(c)
       ELSE /\ request[c] \in {"inside", "hijacked"}
            /\ request' = [request EXCEPT ![c] = "done"]
            /\ UNCHANGED <<phase, drained, active, probeVars>>
    /\ conn[c] # "late"
    /\ UNCHANGED <<trackerVars, connVars, loopVars, serveVars>>

(* The response is written: the connection waits for the next request. *)
BecomeIdle(c) ==
    /\ conn[c] = "busy" /\ request[c] \in {"done", "refused"}
    /\ Move(c, "idle")
    /\ UNCHANGED <<managerVars, trackerVars, loopVars, open, closeErr, serveVars>>

(* The peer went away, a timeout passed or the server closed the socket. *)
ReadFails(c) ==
    /\ conn[c] \in {"new", "idle"}
    /\ Move(c, "end") /\ Close({c})
    /\ UNCHANGED <<managerVars, trackerVars, loopVars, serveVars>>

ReportClosed(c) ==
    /\ conn[c] = "end"
    /\ ObserveClosed(c)
    /\ Move(c, "gone")
    /\ UNCHANGED <<managerVars, loopVars, open, closeErr, serveVars>>

(* Mutant: a connection hijacked while the others are being closed stays   *)
(* with its handler.                                                       *)
HijackKept(c) ==
    /\ conn[c] = "busy"
    /\ Hijack(c)
    /\ ObserveHijacked(c)
    /\ Move(c, "hijacked")
    /\ UNCHANGED <<loopVars, open, closeErr, serveVars>>

(* The handler hijacks: the StateHijacked hook runs before it gets the     *)
(* connection, and closes it when closeHijacked has been there already.    *)
HijackConn(c) ==
    /\ conn[c] = "busy"
    /\ Hijack(c)
    /\ ObserveHijacked(c)
    /\ Move(c, IF closing THEN "late" ELSE "hijacked")
    /\ UNCHANGED <<loopVars, open, closeErr, serveVars>>

(* Close of a hijacked connection, by the hook or by whoever owns it; then *)
(* its deferred forget.                                                    *)
CloseHijackedConn(c) ==
    /\ conn[c] \in {"late", "hijacked"}
    /\ Close({c})
    /\ Move(c, "forget")
    /\ UNCHANGED <<managerVars, trackerVars, loopVars, serveVars>>

Forget(c) ==
    /\ conn[c] = "forget"
    /\ ForgetConn(c)
    /\ Move(c, "taken")
    /\ UNCHANGED <<managerVars, loopVars, open, closeErr, serveVars>>

-----------------------------------------------------------------------------
(* serve.  Every return after appkit.Start goes through the deferred drain *)
(* and shutdown, which begin at label "drain".                             *)

Goto(l) == pc' = l
Join(failed) == clean' = (clean /\ ~failed)

(* appkit.Start: a Host that fails to start has shut itself down. *)
StartModules ==
    /\ pc = "start"
    /\ \/ Goto("assemble") /\ app' = "running" /\ Join(FALSE)
       \/ Goto("returned") /\ app' = "none" /\ Join(TRUE)
    /\ UNCHANGED <<managerVars, trackerVars, connVars, loopVars, managed, cancelled, baseDone, doomed>>

(* Assemble; a cancelled context or a failure rolls the Host back. *)
Assemble ==
    /\ pc = "assemble"
    /\ \/ ~cancelled /\ Goto("handler") /\ Join(FALSE) /\ UNCHANGED app
       \/ Goto("returned") /\ Join(TRUE) /\ app' \in {"stopped", "broken"}
    /\ UNCHANGED <<managerVars, trackerVars, connVars, loopVars, managed, cancelled, baseDone, doomed>>

(* The Handler factory and the Listener factory, each after a context      *)
(* check; a listener that is not used is closed.                           *)
MakeHandler ==
    /\ pc = "handler"
    /\ \/ ~cancelled /\ Goto("listener") /\ Join(FALSE)
       \/ Goto("drain") /\ Join(TRUE)
    /\ UNCHANGED <<managerVars, trackerVars, connVars, loopVars, managed, cancelled, app, baseDone, doomed>>

Listen ==
    /\ pc = "listener"
    /\ \/ /\ ~cancelled
          /\ Goto("markReady") /\ Join(FALSE)
          /\ loop' = "accepting" /\ listening' = TRUE
       \/ Goto("drain") /\ Join(TRUE) /\ UNCHANGED loopVars
    /\ UNCHANGED <<managerVars, trackerVars, connVars, managed, cancelled, app, baseDone, doomed>>

(* http.Server.Close: the listener and every connection the server owns. *)
ServerClose ==
    /\ listening' = FALSE
    /\ Close({c \in Conns : conn[c] \in {"new", "busy", "idle"}})

MarkProcessReady ==
    /\ pc = "markReady"
    /\ \/ ~managed /\ Goto("serving") /\ UNCHANGED <<managerVars, listening, open, closeErr>>
       \/ managed /\ MarkReadyAccepted /\ MarkReady /\ Goto("serving")
          /\ UNCHANGED <<listening, open, closeErr>>
       \/ managed /\ ~MarkReadyAccepted /\ ServerClose /\ Goto("abort") /\ UNCHANGED managerVars
    /\ UNCHANGED <<trackerVars, conn, loop, managed, cancelled, app, clean, baseDone, doomed>>

(* <-serveResult, without a bound. *)
Abort ==
    /\ pc = "abort"
    /\ loop \in {"returned", "failed"}
    /\ Goto("drain") /\ Join(TRUE) /\ baseDone' = TRUE
    /\ UNCHANGED <<managerVars, trackerVars, connVars, loopVars, managed, cancelled, app, doomed>>

Serving ==
    /\ pc = "serving"
    /\ cancelled \/ loop \in {"returned", "failed"}
    /\ IF managed THEN BeginDrain ELSE UNCHANGED managerVars
    /\ Goto("drainHTTP")
    /\ UNCHANGED <<trackerVars, connVars, loopVars, managed, cancelled, app, clean, baseDone, doomed>>

(* drainHTTP: Shutdown closes the listener and then the connections that   *)
(* are between requests, until none is left or its deadline passes.        *)
ShutdownBegin ==
    /\ pc = "drainHTTP"
    /\ listening' = FALSE
    /\ Goto("shutting")
    /\ UNCHANGED <<managerVars, trackerVars, connVars, loop, managed, cancelled, app, clean, baseDone, doomed>>

ShutdownCloses(c) ==
    /\ pc = "shutting"
    /\ conn[c] \in {"new", "idle"} /\ c \in open
    /\ Close({c})
    /\ UNCHANGED <<managerVars, trackerVars, conn, loopVars, serveVars>>

ShutdownReturns ==
    /\ pc = "shutting"
    /\ \A c \in Conns : conn[c] # "busy" /\ (conn[c] \in {"new", "idle"} => c \notin open)
    /\ Goto("closeHijacked")
    /\ UNCHANGED <<managerVars, trackerVars, connVars, loopVars, managed, cancelled, app, clean, baseDone, doomed>>

ShutdownExpires ==
    /\ pc = "shutting"
    /\ ServerClose
    /\ baseDone' = TRUE /\ Join(TRUE)
    /\ Goto("closeHijacked")
    /\ UNCHANGED <<managerVars, trackerVars, conn, loop, managed, cancelled, app, doomed>>

(* connectionTracker.closeHijacked: collect under the lock, close outside. *)
CollectHijacked ==
    /\ pc = "closeHijacked"
    /\ closing' = TRUE
    /\ doomed' = hijacked /\ hijacked' = {}
    /\ Notify
    /\ Goto("closeDoomed")
    /\ UNCHANGED <<managerVars, tracked, connVars, loopVars, managed, cancelled, app, clean, baseDone>>

(* After the last one, the deferred return of drainHTTP: cancelActive. *)
CloseDoomed ==
    /\ pc = "closeDoomed"
    /\ Close(doomed)
    /\ doomed' = {} /\ baseDone' = TRUE
    /\ Goto("awaitServe")
    /\ UNCHANGED <<managerVars, trackerVars, conn, loopVars, managed, cancelled, app, clean>>

(* The result of Serve may have been received already; if not, wait for it *)
(* or for a timer.  http.ErrServerClosed is no error.                      *)
AwaitServe ==
    /\ pc = "awaitServe"
    /\ loop \in {"returned", "failed"}
    /\ Join(loop = "failed")
    /\ Goto("wait")
    /\ UNCHANGED <<managerVars, trackerVars, connVars, loopVars, managed, cancelled, app, baseDone, doomed>>

AwaitServeExpires ==
    /\ pc = "awaitServe"
    /\ Join(TRUE)
    /\ Goto("wait")
    /\ UNCHANGED <<managerVars, trackerVars, connVars, loopVars, managed, cancelled, app, baseDone, doomed>>

(* connectionTracker.wait: look under the lock and take the channel of the *)
(* next change, then select on it.                                         *)
WaitLook ==
    /\ pc = "wait"
    /\ IF tracked = {} /\ hijacked = {}
       THEN Goto("drain") /\ Join(closeErr) /\ UNCHANGED signalled
       ELSE Goto("selecting") /\ signalled' = FALSE /\ UNCHANGED clean
    /\ UNCHANGED <<managerVars, tracked, hijacked, closing, connVars, loopVars, managed, cancelled, app, baseDone, doomed>>

WaitSignalled ==
    /\ pc = "selecting" /\ signalled
    /\ Goto("wait")
    /\ UNCHANGED <<managerVars, trackerVars, connVars, loopVars, managed, cancelled, app, clean, baseDone, doomed>>

WaitExpires ==
    /\ pc = "selecting"
    /\ Goto("drain") /\ Join(TRUE)
    /\ UNCHANGED <<managerVars, trackerVars, connVars, loopVars, managed, cancelled, app, baseDone, doomed>>

(* The deferred function: BeginDrain and Drain, shutdownApplication,       *)
(* MarkStopped.                                                            *)
DrainProcess ==
    /\ pc = "drain"
    /\ IF managed THEN BeginDrain ELSE UNCHANGED managerVars
    /\ \/ (managed => drained') /\ Join(FALSE) /\ Goto("stopApp")
       \/ managed /\ ~drained' /\ Join(FALSE) /\ Goto("draining")
    /\ UNCHANGED <<trackerVars, connVars, loopVars, managed, cancelled, app, baseDone, doomed>>

DrainReturns ==
    /\ pc = "draining"
    /\ \/ drained /\ Join(FALSE)
       \/ Join(TRUE)
    /\ Goto("stopApp")
    /\ UNCHANGED <<managerVars, trackerVars, connVars, loopVars, managed, cancelled, app, baseDone, doomed>>

StopApplication ==
    /\ pc = "stopApp"
    /\ \/ app' = "stopped" /\ Join(FALSE)
       \/ app' = "broken" /\ Join(TRUE)
    /\ Goto("markStopped")
    /\ UNCHANGED <<managerVars, trackerVars, connVars, loopVars, managed, cancelled, baseDone, doomed>>

MarkProcessStopped ==
    /\ pc = "markStopped"
    /\ IF managed
       THEN MarkStopped /\ Join(~MarkStoppedAccepted)
       ELSE UNCHANGED <<managerVars, clean>>
    /\ Goto("returned")
    /\ UNCHANGED <<trackerVars, connVars, loopVars, managed, cancelled, app, baseDone, doomed>>

(* The caller of serve, and whoever else holds the manager. *)
Cancel ==
    /\ ~cancelled
    /\ cancelled' = TRUE
    /\ UNCHANGED <<managerVars, trackerVars, connVars, loopVars, managed, pc, app, clean, baseDone, doomed>>

DrainElsewhere ==
    /\ managed /\ phase \in {"starting", "ready"}
    /\ BeginDrain
    /\ UNCHANGED <<trackerVars, connVars, loopVars, serveVars>>

ConnStep(c) ==
    \/ Accept(c) \/ Track(c) \/ ReadRequest(c) \/ Admit(c) \/ HandlerReturns(c)
    \/ BecomeIdle(c) \/ ReadFails(c) \/ ReportClosed(c)
    \/ HijackConn(c) \/ CloseHijackedConn(c) \/ Forget(c) \/ ShutdownCloses(c)

ServeStep ==
    \/ StartModules \/ Assemble \/ MakeHandler \/ Listen \/ MarkProcessReady \/ Abort
    \/ Serving \/ ShutdownBegin \/ ShutdownReturns \/ CollectHijacked \/ CloseDoomed
    \/ AwaitServe \/ WaitLook \/ WaitSignalled \/ DrainProcess \/ (drained /\ DrainReturns)
    \/ StopApplication \/ MarkProcessStopped

Expiry == ShutdownExpires \/ AwaitServeExpires \/ WaitExpires \/ DrainReturns

Next ==
    \/ ServeStep \/ Expiry \/ ServeEnds \/ Cancel \/ DrainElsewhere
    \/ \E c \in Conns : ConnStep(c)

Spec == Init /\ [][Next]_vars

(* serve runs; the deadline of Shutdown passes, and no other deadline has  *)
(* to; the server's goroutines run and its read timeouts pass; a handler   *)
(* returns once its context is cancelled.                                  *)
Fairness ==
    /\ WF_vars(ServeStep) /\ WF_vars(ShutdownExpires)
    /\ WF_vars(~listening /\ ServeEnds)
    /\ \A c \in Conns :
        /\ WF_vars(Track(c)) /\ WF_vars(Admit(c)) /\ WF_vars(BecomeIdle(c))
        /\ WF_vars(ReadFails(c)) /\ WF_vars(ReportClosed(c))
        /\ WF_vars(baseDone /\ HandlerReturns(c))
        /\ WF_vars(conn[c] = "late" /\ CloseHijackedConn(c)) /\ WF_vars(Forget(c))

FairSpec == Spec /\ Fairness

-----------------------------------------------------------------------------
(* TestServeCancellationDrainsHTTPBeforeApplicationShutdown, for every     *)
(* interleaving: when the application has been stopped and serve has no    *)
(* error to report, no handler runs that the server or the manager knows   *)
(* of, and every accepted socket is closed.  Without a manager two things  *)
(* may be left: a handler that hijacked its connection, and one such       *)
(* connection that the tracker's hook is about to close.                   *)
ServeStopsQuietly ==
    (app = "stopped" /\ clean) =>
        /\ loop \in {"off", "returned"}
        /\ \A c \in Conns :
            /\ request[c] \notin {"arrived", "inside"}
            /\ request[c] = "hijacked" => ~managed
            /\ c \in open => (conn[c] = "late" /\ ~managed)

(* A cancelled serve returns, and needs no deadline other than that of     *)
(* Shutdown: no change of the tracker is missed by its wait.               *)
CancelledServeReturns == cancelled ~> (pc = "returned")
=============================================================================
