--------------------------- MODULE ProcessManager ---------------------------
(***************************************************************************)
(* processkit.Manager: the local phase of the process, the admission of    *)
(* application requests and the readiness probe with its dependency checks.*)
(* Every request and every probe is a goroutine of the HTTP server; every  *)
(* dependency check runs in a goroutine of its own that may outlive the    *)
(* probe that started it.  Each action is one critical section of          *)
(* Manager.mu or one channel operation.                                    *)
(***************************************************************************)
EXTENDS Naturals, FiniteSets

CONSTANTS
    Requests,               \* application requests that may arrive
    Probes,                 \* readiness probes that may arrive
    Checks,                 \* the configured dependency checks
    None                    \* no invocation holds the gate of a check

ASSUME NoneIsNoProbe == None \notin Probes

VARIABLES
    phase,                  \* Manager.phase
    active,                 \* the requests counted by Manager.active
    drained,                \* the channel Manager.drained is closed
    request,                \* where the goroutine of a request is
    probe,                  \* where the goroutine of a probe is
    todo,                   \* the checks a probe has still to launch
    result,                 \* what a probe's results channel received
    gate                    \* Manager.checks[k].gate: the invocation in flight

requestVars == <<active, request>>
probeVars == <<probe, todo, result, gate>>
managerVars == <<phase, drained, requestVars, probeVars>>

Phases == {"starting", "ready", "draining", "stopped"}

(* The invocation that holds the gate of a check: the probe it reports to, *)
(* and whether it has reported already and only the gate is still held.    *)
Invocations == [by : Probes, reported : BOOLEAN]

ManagerTypeOK ==
    /\ phase \in Phases
    /\ active \subseteq Requests
    /\ drained \in BOOLEAN
    /\ request \in [Requests -> {"none", "arrived", "inside", "hijacked", "done", "refused"}]
    /\ probe \in [Probes -> {"none", "arrived", "launch", "wait", "ready", "not_ready"}]
    /\ todo \in [Probes -> SUBSET Checks]
    /\ result \in [Probes -> [Checks -> {"none", "ok", "failed"}]]
    /\ gate \in [Checks -> Invocations \cup {None}]

ManagerInit ==
    /\ phase = "starting"
    /\ active = {}
    /\ drained = FALSE
    /\ request = [r \in Requests |-> "none"]
    /\ probe = [p \in Probes |-> "none"]
    /\ todo = [p \in Probes |-> {}]
    /\ result = [p \in Probes |-> [k \in Checks |-> "none"]]
    /\ gate = [k \in Checks |-> None]

-----------------------------------------------------------------------------
(* The phases. *)

MarkReadyAccepted == phase \in {"starting", "ready"}

MarkReady ==
    /\ phase' = IF phase = "starting" THEN "ready" ELSE phase
    /\ UNCHANGED <<drained, requestVars, probeVars>>

BeginDrain ==
    /\ phase' = IF phase \in {"starting", "ready"} THEN "draining" ELSE phase
    /\ drained' = (drained \/ (phase' = "draining" /\ active = {}))
    /\ UNCHANGED <<requestVars, probeVars>>

MarkStoppedAccepted == phase = "stopped" \/ (phase = "draining" /\ active = {})

MarkStopped ==
    /\ phase' = IF MarkStoppedAccepted THEN "stopped" ELSE phase
    /\ UNCHANGED <<drained, requestVars, probeVars>>

-----------------------------------------------------------------------------
(* An application request: Middleware, acquire and the deferred release.   *)

Arrive(r) ==
    /\ request[r] = "none"
    /\ request' = [request EXCEPT ![r] = "arrived"]
    /\ UNCHANGED <<phase, drained, active, probeVars>>

Acquire(r) ==
    /\ request[r] = "arrived"
    /\ IF phase = "ready"
       THEN /\ active' = active \cup {r}
            /\ request' = [request EXCEPT ![r] = "inside"]
       ELSE /\ request' = [request EXCEPT ![r] = "refused"]
            /\ UNCHANGED active
    /\ UNCHANGED <<phase, drained, probeVars>>

(* The handler takes its connection over from the server, which no longer  *)
(* counts it; the lease stays.                                             *)
Hijack(r) ==
    /\ request[r] = "inside"
    /\ request' = [request EXCEPT ![r] = "hijacked"]
    /\ UNCHANGED <<phase, drained, active, probeVars>>

(* Mutant: the last request out does not signal the drain. *)
ReleaseSilently(r) ==
    /\ request[r] \in {"inside", "hijacked"}
    /\ active' = active \ {r}
    /\ request' = [request EXCEPT ![r] = "done"]
    /\ UNCHANGED <<phase, drained, probeVars>>

(* The handler returned or panicked; release is deferred, so both end here.*)
Release(r) ==
    /\ request[r] \in {"inside", "hijacked"}
    /\ active' = active \ {r}
    /\ request' = [request EXCEPT ![r] = "done"]
    /\ drained' = (drained \/ (phase = "draining" /\ active' = {}))
    /\ UNCHANGED <<phase, probeVars>>

-----------------------------------------------------------------------------
(* A readiness probe: it passes Middleware without a lease, reads the      *)
(* phase, launches the checks whose gate is free and waits for all of them *)
(* or for its timeout.                                                     *)

ProbeArrive(p) ==
    /\ probe[p] = "none"
    /\ probe' = [probe EXCEPT ![p] = "arrived"]
    /\ UNCHANGED <<phase, drained, requestVars, todo, result, gate>>

ProbeReadPhase(p) ==
    /\ probe[p] = "arrived"
    /\ probe' = [probe EXCEPT ![p] = IF phase = "ready" THEN "launch" ELSE "not_ready"]
    /\ todo' = [todo EXCEPT ![p] = IF phase = "ready" THEN Checks ELSE {}]
    /\ UNCHANGED <<phase, drained, requestVars, result, gate>>

(* Mutant: a check that is already running counts as passed. *)
LaunchCheckBusyPasses(p, k) ==
    /\ probe[p] = "launch"
    /\ k \in todo[p]
    /\ todo' = [todo EXCEPT ![p] = @ \ {k}]
    /\ IF gate[k] = None
       THEN /\ gate' = [gate EXCEPT ![k] = [by |-> p, reported |-> FALSE]]
            /\ UNCHANGED result
       ELSE /\ result' = [result EXCEPT ![p][k] = "ok"]
            /\ UNCHANGED gate
    /\ UNCHANGED <<phase, drained, requestVars, probe>>

LaunchCheck(p, k) ==
    /\ probe[p] = "launch"
    /\ k \in todo[p]
    /\ todo' = [todo EXCEPT ![p] = @ \ {k}]
    /\ IF gate[k] = None
       THEN /\ gate' = [gate EXCEPT ![k] = [by |-> p, reported |-> FALSE]]
            /\ UNCHANGED result
       ELSE /\ result' = [result EXCEPT ![p][k] = "failed"]
            /\ UNCHANGED gate
    /\ UNCHANGED <<phase, drained, requestVars, probe>>

AllLaunched(p) ==
    /\ probe[p] = "launch"
    /\ todo[p] = {}
    /\ probe' = [probe EXCEPT ![p] = "wait"]
    /\ UNCHANGED <<phase, drained, requestVars, todo, result, gate>>

(* The check returned, failed or panicked: its goroutine sends the result  *)
(* on the buffered channel, whether or not the probe still listens.        *)
CheckReturns(k, outcome) ==
    /\ gate[k] # None
    /\ ~gate[k].reported
    /\ result' = [result EXCEPT ![gate[k].by][k] = outcome]
    /\ gate' = [gate EXCEPT ![k].reported = TRUE]
    /\ UNCHANGED <<phase, drained, requestVars, probe, todo>>

CheckLeaves(k) ==
    /\ gate[k] # None
    /\ gate[k].reported
    /\ gate' = [gate EXCEPT ![k] = None]
    /\ UNCHANGED <<phase, drained, requestVars, probe, todo, result>>

ProbeAnswer(p) ==
    /\ probe[p] = "wait"
    /\ \/ /\ \A k \in Checks : result[p][k] = "ok"
          /\ probe' = [probe EXCEPT ![p] = "ready"]
       \/ /\ \E k \in Checks : result[p][k] = "failed"
          /\ probe' = [probe EXCEPT ![p] = "not_ready"]
    /\ UNCHANGED <<phase, drained, requestVars, todo, result, gate>>

(* ctx.Done() of the probe: the timeout or the client going away. *)
ProbeTimeout(p) ==
    /\ probe[p] = "wait"
    /\ probe' = [probe EXCEPT ![p] = "not_ready"]
    /\ UNCHANGED <<phase, drained, requestVars, todo, result, gate>>

RequestSteps == \E r \in Requests : Acquire(r) \/ Hijack(r) \/ Release(r)

ProbeSteps ==
    \E p \in Probes :
        \/ ProbeReadPhase(p)
        \/ \E k \in Checks : LaunchCheck(p, k)
        \/ AllLaunched(p)
        \/ ProbeAnswer(p)
        \/ ProbeTimeout(p)

CheckSteps ==
    \E k \in Checks :
        \/ \E outcome \in {"ok", "failed"} : CheckReturns(k, outcome)
        \/ CheckLeaves(k)

(* What http.Server.Shutdown waits for. *)
RequestInFlight == \E r \in Requests : request[r] \in {"arrived", "inside"}
ProbeInFlight == \E p \in Probes : probe[p] \in {"arrived", "launch", "wait"}
=============================================================================
