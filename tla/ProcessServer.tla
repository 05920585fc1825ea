---------------------------- MODULE ProcessServer ----------------------------
(***************************************************************************)
(* processkit.Serve over its Manager: listen, mark the process ready,      *)
(* serve until cancellation or failure, then drain, stop the application   *)
(* and mark the process stopped under one deadline.  Every early return    *)
(* goes through the deferred stopOwnedApplication.  Requests, probes and   *)
(* dependency checks run beside it, and other code of the process may      *)
(* begin the drain first.                                                  *)
(***************************************************************************)
EXTENDS ProcessManager

VARIABLES
    pc,                     \* where Serve is
    cancelled,              \* the context given to Serve is done
    http,                   \* the http.Server: off, serving, failed, shut, closed
    expired,                \* the shutdown deadline has passed
    stops,                  \* how often the application's Shutdown was called
    early,                  \* Shutdown was called before the deadline passed
    errs                    \* the errors Serve joins into its result

serveVars == <<pc, cancelled, http, expired, stops, early, errs>>
vars == <<managerVars, serveVars>>

ServeLabels ==
    {"validate", "listen", "markReady", "closeListener", "serving", "drain",
     "shutdownHTTP", "awaitServe", "awaitDrain", "stopApp", "stopping",
     "markStopped", "returned"}

(* A joined error, by the call it comes from. *)
Failures == {"options", "listen", "ready", "serve", "server", "drain", "application", "stop"}

TypeOK ==
    /\ ManagerTypeOK
    /\ pc \in ServeLabels
    /\ cancelled \in BOOLEAN
    /\ http \in {"off", "serving", "failed", "shut", "closed"}
    /\ expired \in BOOLEAN
    /\ stops \in 0..1
    /\ early \in BOOLEAN
    /\ errs \subseteq Failures

Init ==
    /\ ManagerInit
    /\ pc = "validate"
    /\ cancelled = FALSE
    /\ http = "off"
    /\ expired = FALSE
    /\ stops = 0
    /\ early = FALSE
    /\ errs = {}

-----------------------------------------------------------------------------
(* Serve up to the point where it waits for the end. *)

Validate ==
    /\ pc = "validate"
    /\ \/ pc' = "listen" /\ UNCHANGED errs
       \/ pc' = "drain" /\ errs' = errs \cup {"options"}
    /\ UNCHANGED <<managerVars, cancelled, http, expired, stops, early>>

(* Mutant: the early return does not own the application yet. *)
ListenWithoutCleanup ==
    /\ pc = "listen"
    /\ \/ pc' = "markReady" /\ http' = "serving" /\ UNCHANGED errs
       \/ pc' = "returned" /\ errs' = errs \cup {"listen"} /\ UNCHANGED http
    /\ UNCHANGED <<managerVars, cancelled, expired, stops, early>>

Listen ==
    /\ pc = "listen"
    /\ \/ pc' = "markReady" /\ http' = "serving" /\ UNCHANGED errs
       \/ pc' = "drain" /\ errs' = errs \cup {"listen"} /\ UNCHANGED http
    /\ UNCHANGED <<managerVars, cancelled, expired, stops, early>>

ServeMarkReady ==
    /\ pc = "markReady"
    /\ MarkReady
    /\ IF MarkReadyAccepted
       THEN pc' = "serving" /\ UNCHANGED errs
       ELSE pc' = "closeListener" /\ errs' = errs \cup {"ready"}
    /\ UNCHANGED <<cancelled, http, expired, stops, early>>

(* The listener is closed and the result of server.Serve received, which   *)
(* is an error of its own: the server was not shut down.  The deferred     *)
(* stopOwnedApplication follows.                                           *)
CloseListener ==
    /\ pc = "closeListener"
    /\ http' = "failed"
    /\ errs' = errs \cup {"serve"}
    /\ pc' = "drain"
    /\ UNCHANGED <<managerVars, cancelled, expired, stops, early>>

(* server.Serve returned by itself, or the context is done. *)
StopServing ==
    /\ pc = "serving"
    /\ \/ http = "failed" /\ errs' = errs \cup {"serve"}
       \/ cancelled /\ UNCHANGED errs
    /\ pc' = "drain"
    /\ UNCHANGED <<managerVars, cancelled, http, expired, stops, early>>

-----------------------------------------------------------------------------
(* The end of Serve, and stopOwnedApplication, which is the same without   *)
(* the shutdown of a server.                                               *)

Early == errs \cap {"options", "listen", "ready"} # {}

ServeBeginDrain ==
    /\ pc = "drain"
    /\ BeginDrain
    /\ pc' = IF Early THEN "awaitDrain" ELSE "shutdownHTTP"
    /\ UNCHANGED <<cancelled, http, expired, stops, early, errs>>

(* Mutant: the error of the deadline is dropped. *)
ShutdownHTTPUnreported ==
    /\ pc = "shutdownHTTP"
    /\ \/ /\ ~RequestInFlight /\ ~ProbeInFlight
          /\ http' = IF http = "failed" THEN http ELSE "shut"
       \/ /\ expired
          /\ http' = IF http = "failed" THEN http ELSE "closed"
    /\ pc' = "awaitServe"
    /\ UNCHANGED <<managerVars, cancelled, expired, stops, early, errs>>

(* server.Shutdown returns when no request is in flight, or with the       *)
(* error of the deadline, after which the connections are closed under     *)
(* their handlers.  A hijacked connection is not waited for.               *)
ShutdownHTTP ==
    /\ pc = "shutdownHTTP"
    /\ \/ /\ ~RequestInFlight /\ ~ProbeInFlight
          /\ http' = IF http = "failed" THEN http ELSE "shut"
          /\ UNCHANGED errs
       \/ /\ expired
          /\ http' = IF http = "failed" THEN http ELSE "closed"
          /\ errs' = errs \cup {"server"}
    /\ pc' = "awaitServe"
    /\ UNCHANGED <<managerVars, cancelled, expired, stops, early>>

(* server.Serve returned ErrServerClosed, unless it had failed before the  *)
(* context was done and nobody had looked.                                 *)
AwaitServe ==
    /\ pc = "awaitServe"
    /\ errs' = IF http = "failed" THEN errs \cup {"serve"} ELSE errs
    /\ pc' = "awaitDrain"
    /\ UNCHANGED <<managerVars, cancelled, http, expired, stops, early>>

(* Mutant: the wait for accepted requests is skipped. *)
AwaitDrainSkipped ==
    /\ pc = "awaitDrain"
    /\ pc' = "stopApp"
    /\ UNCHANGED <<managerVars, cancelled, http, expired, stops, early, errs>>

(* Mutant: the wait has no deadline. *)
AwaitDrainForever ==
    /\ pc = "awaitDrain"
    /\ drained
    /\ pc' = "stopApp"
    /\ UNCHANGED <<managerVars, cancelled, http, expired, stops, early, errs>>

(* Manager.Drain: its own BeginDrain changes nothing here. *)
AwaitDrain ==
    /\ pc = "awaitDrain"
    /\ \/ drained /\ UNCHANGED errs
       \/ expired /\ errs' = errs \cup {"drain"}
    /\ pc' = "stopApp"
    /\ UNCHANGED <<managerVars, cancelled, http, expired, stops, early>>

StopApplication ==
    /\ pc = "stopApp"
    /\ stops' = stops + 1
    /\ early' = ~expired
    /\ pc' = "stopping"
    /\ UNCHANGED <<managerVars, cancelled, http, expired, errs>>

(* The application's Shutdown callback returns, fails or panics. *)
ApplicationStopped ==
    /\ pc = "stopping"
    /\ \/ UNCHANGED errs
       \/ errs' = errs \cup {"application"}
    /\ pc' = "markStopped"
    /\ UNCHANGED <<managerVars, cancelled, http, expired, stops, early>>

ServeMarkStopped ==
    /\ pc = "markStopped"
    /\ MarkStopped
    /\ errs' = IF MarkStoppedAccepted THEN errs ELSE errs \cup {"stop"}
    /\ pc' = "returned"
    /\ UNCHANGED <<cancelled, http, expired, stops, early>>

-----------------------------------------------------------------------------
(* Around Serve. *)

Cancel ==
    /\ ~cancelled
    /\ cancelled' = TRUE
    /\ UNCHANGED <<managerVars, pc, http, expired, stops, early, errs>>

(* The listener fails under server.Serve. *)
ListenerFails ==
    /\ http = "serving"
    /\ pc # "closeListener"
    /\ http' = "failed"
    /\ UNCHANGED <<managerVars, pc, cancelled, expired, stops, early, errs>>

(* The deadline of the shutdown context passes. *)
Expire ==
    /\ pc \in {"shutdownHTTP", "awaitServe", "awaitDrain", "stopApp", "stopping"}
    /\ ~expired
    /\ expired' = TRUE
    /\ UNCHANGED <<managerVars, pc, cancelled, http, stops, early, errs>>

(* BeginDrain is exported: another part of the process may call it first. *)
DrainElsewhere ==
    /\ phase \in {"starting", "ready"}
    /\ BeginDrain
    /\ UNCHANGED serveVars

(* A connection the server accepted delivers a request; one accepted       *)
(* before the shutdown may deliver it afterwards.                          *)
Delivery ==
    /\ http # "off"
    /\ \/ \E r \in Requests : Arrive(r)
       \/ \E p \in Probes : ProbeArrive(p)
    /\ UNCHANGED serveVars

Goroutines ==
    /\ RequestSteps \/ ProbeSteps \/ CheckSteps
    /\ UNCHANGED serveVars

ServeSteps ==
    \/ Validate \/ Listen \/ ServeMarkReady \/ CloseListener \/ StopServing
    \/ ServeBeginDrain \/ ShutdownHTTP \/ AwaitServe \/ AwaitDrain
    \/ StopApplication \/ ApplicationStopped \/ ServeMarkStopped

Next ==
    \/ ServeSteps
    \/ Cancel \/ ListenerFails \/ Expire \/ DrainElsewhere
    \/ Delivery \/ Goroutines

Spec == Init /\ [][Next]_vars

(* Serve is one goroutine of the Go scheduler, a deadline passes, the       *)
(* application's Shutdown returns; nothing is assumed of handlers or checks.*)
FairSpec == Spec /\ WF_vars(ServeSteps) /\ WF_vars(Expire)
-----------------------------------------------------------------------------
(* The manager is a lease gate for requests: it is open until the drain    *)
(* begins, and Manager.drained is closed exactly when the drain has begun  *)
(* and the last accepted request has left.                                 *)
Gate == INSTANCE LeaseGate
    WITH Callers <- Requests, open <- (phase \in {"starting", "ready"})

GateSpec == Gate!Spec

(* Serve calls the application's Shutdown before its deadline only when    *)
(* nothing can still use the application: no accepted request runs and no  *)
(* probe is between reading "ready" and its answer ("drains accepted       *)
(* requests, and then stops application resources").                       *)
StopsApplicationWhenQuiet ==
    stops > 0 /\ early =>
        /\ \A r \in Requests : request[r] \notin {"inside", "hijacked"}
        /\ \A p \in Probes : probe[p] \notin {"launch", "wait"}

(* Serve owns the application: whichever step fails, the application's     *)
(* Shutdown has been called exactly once when Serve returns (cleanupNeeded *)
(* and the deferred stopOwnedApplication).  It returns no error only for a *)
(* complete shutdown: the process is stopped, every request it accepted    *)
(* has been served to its end, and no connection was closed under its      *)
(* handler.                                                                *)
ReturnMeansStopped ==
    pc = "returned" =>
        /\ stops = 1
        /\ errs = {} =>
              /\ phase = "stopped" /\ http # "closed"
              /\ \A r \in Requests : request[r] \notin {"inside", "hijacked"}

(* Serve stops the application it owns exactly once, and in the deadline   *)
(* only after the work it accepted (Serve, stopOwnedApplication).          *)
StopsOnceWhenQuiet == StopsApplicationWhenQuiet /\ ReturnMeansStopped

(* A check passes for a probe only by an invocation that this probe        *)
(* started and that has just succeeded: a check found busy by a second     *)
(* probe, or the late result of an earlier probe, never makes a probe      *)
(* ready (dependenciesReady).                                              *)
ChecksPassForTheirProbe ==
    [][\A p \in Probes, k \in Checks :
         result'[p][k] = "ok" /\ result[p][k] # "ok" =>
             gate[k] # None /\ gate[k].by = p /\ ~gate[k].reported]_vars

(* Cancelling the context of Serve makes it return, even when handlers and *)
(* checks never do: every wait of the shutdown is bounded by its deadline. *)
ServeEnds == cancelled ~> pc = "returned"
=============================================================================
