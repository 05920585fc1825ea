------------------------- MODULE ProcessServerProofs -------------------------
(***************************************************************************)
(* processkit.Serve and its Manager for any number of requests, probes and *)
(* dependency checks, none of which is assumed to end.                     *)
(***************************************************************************)
EXTENDS ProcessServer, TLAPS

(* No probe uses the application's dependency checks. *)
ProbesQuiet == \A p \in Probes : probe[p] \notin {"launch", "wait"}

(* The labels of Serve once it has begun the drain, and those after the    *)
(* shutdown of the HTTP server and after the wait for the drain.           *)
Stopped == {"stopping", "markStopped", "returned"}
Waited == {"stopApp"} \cup Stopped
Shut == {"awaitServe", "awaitDrain"} \cup Waited
Drained == {"shutdownHTTP"} \cup Shut

Types ==
    /\ phase \in Phases /\ drained \in BOOLEAN
    /\ request \in [Requests -> {"none", "arrived", "inside", "hijacked", "done", "refused"}]
    /\ probe \in [Probes -> {"none", "arrived", "launch", "wait", "ready", "not_ready"}]
    /\ pc \in ServeLabels /\ expired \in BOOLEAN /\ early \in BOOLEAN

(* Manager.active counts the requests between acquire and release. *)
ActiveExact == active = {r \in Requests : request[r] \in {"inside", "hijacked"}}

(* Manager.drained is closed when the drain has begun and nobody is left,  *)
(* and the process is stopped only then.                                   *)
DrainExact ==
    /\ drained = (phase \in {"draining", "stopped"} /\ active = {})
    /\ phase = "stopped" => active = {}

(* What Serve has established at each label. *)
ServeInv ==
    /\ pc \in {"validate", "listen", "markReady", "serving"} => errs = {}
    /\ pc \in {"validate", "listen", "markReady", "closeListener"} \/ Early => phase # "ready" /\ ProbesQuiet
    /\ pc \in Drained => phase \in {"draining", "stopped"}
    /\ pc \in Shut => expired \/ ProbesQuiet
    /\ pc \in Waited => expired \/ drained
    /\ stops = IF pc \in Stopped THEN 1 ELSE 0
    /\ stops > 0 /\ early => drained /\ ProbesQuiet
    /\ http = "closed" => "server" \in errs
    /\ pc = "returned" /\ errs = {} => phase = "stopped"

IInv == Types /\ ActiveExact /\ DrainExact /\ ServeInv

(* A step of the manager is a step of the gate. *)
GateStep == Gate!Next \/ UNCHANGED Gate!vars

-----------------------------------------------------------------------------
LEMMA InitIInv == Init => IInv /\ Gate!Init
<1> SUFFICES ASSUME Init PROVE IInv /\ Gate!Init
  OBVIOUS
<1> USE DEF Init, ManagerInit
<1>1. Types
  BY DEF Types, Phases, ServeLabels
<1>2. ActiveExact /\ DrainExact
  BY DEF ActiveExact, DrainExact
<1>3. ServeInv
  BY DEF ServeInv, ProbesQuiet, Early, Drained, Shut, Waited, Stopped
<1>4. Gate!Init
  BY DEF Gate!Init
<1> QED BY <1>1, <1>2, <1>3, <1>4 DEF IInv

(* The manager's part of the invariant, step by step. *)
Managed == ActiveExact /\ DrainExact /\ phase \in Phases /\ drained \in BOOLEAN

LEMMA MarkReadyKeeps == ASSUME Managed, MarkReady PROVE Managed' /\ UNCHANGED Gate!vars
BY DEF Managed, MarkReady, ActiveExact, DrainExact, Phases, requestVars, Gate!vars

LEMMA MarkStoppedKeeps == ASSUME Managed, MarkStopped PROVE Managed' /\ UNCHANGED Gate!vars
BY DEF Managed, MarkStopped, MarkStoppedAccepted, ActiveExact, DrainExact, Phases, requestVars, Gate!vars

LEMMA BeginDrainKeeps ==
    ASSUME Managed, BeginDrain
    PROVE  Managed' /\ GateStep /\ phase' \in {"draining", "stopped"}
<1>1. phase' \in {"draining", "stopped"} /\ UNCHANGED active
  BY DEF Managed, BeginDrain, Phases, requestVars
<1>2. drained' = (phase' \in {"draining", "stopped"} /\ active' = {})
  BY <1>1 DEF Managed, BeginDrain, DrainExact, Phases
<1>3. Managed'
  BY <1>1, <1>2 DEF Managed, BeginDrain, ActiveExact, DrainExact, Phases, requestVars
<1>4. CASE phase \in {"starting", "ready"}
  <2>1. Gate!Close
    BY <1>1, <1>2, <1>4 DEF Gate!Close
  <2> QED BY <1>1, <1>3, <2>1 DEF GateStep, Gate!Next
<1>5. CASE phase \notin {"starting", "ready"}
  <2>1. UNCHANGED Gate!vars
    BY <1>1, <1>2, <1>5 DEF Managed, BeginDrain, DrainExact, Phases, Gate!vars
  <2> QED BY <1>1, <1>3, <2>1 DEF GateStep
<1> QED BY <1>4, <1>5

LEMMA ArriveKeeps ==
    ASSUME Managed, NEW r \in Requests, Arrive(r) \/ Hijack(r),
           request \in [Requests -> {"none", "arrived", "inside", "hijacked", "done", "refused"}]
    PROVE  Managed' /\ UNCHANGED Gate!vars
BY DEF Managed, Arrive, Hijack, ActiveExact, DrainExact, Gate!vars

LEMMA AcquireKeeps ==
    ASSUME Managed, NEW r \in Requests, Acquire(r),
           request \in [Requests -> {"none", "arrived", "inside", "hijacked", "done", "refused"}]
    PROVE  Managed' /\ GateStep
<1>1. r \notin active
  BY DEF Managed, ActiveExact, Acquire
<1>2. CASE phase = "ready"
  <2>1. ActiveExact'
    BY <1>2 DEF Managed, ActiveExact, Acquire
  <2>2. DrainExact' /\ phase' \in Phases /\ drained' \in BOOLEAN
    BY <1>2 DEF Managed, DrainExact, Acquire
  <2>3. Gate!Acquire(r)
    BY <1>1, <1>2 DEF Acquire, Gate!Acquire
  <2> QED BY <2>1, <2>2, <2>3 DEF Managed, GateStep, Gate!Next
<1>3. CASE phase # "ready"
  BY <1>3 DEF Managed, ActiveExact, DrainExact, Acquire, GateStep, Gate!vars
<1> QED BY <1>2, <1>3

LEMMA ReleaseKeeps ==
    ASSUME Managed, NEW r \in Requests, Release(r),
           request \in [Requests -> {"none", "arrived", "inside", "hijacked", "done", "refused"}]
    PROVE  Managed' /\ GateStep
<1>1. r \in active /\ active' = active \ {r} /\ phase' = phase /\ phase # "stopped" /\ drained = FALSE
  BY DEF Managed, ActiveExact, DrainExact, Release
<1>2. drained' = (phase \in {"draining", "stopped"} /\ active' = {})
  BY <1>1 DEF Release
<1>3. ActiveExact'
  BY DEF Managed, ActiveExact, Release
<1>4. Managed'
  BY <1>1, <1>2, <1>3 DEF Managed, DrainExact
<1>5. Gate!Release(r)
  BY <1>1, <1>2 DEF Managed, Phases, Gate!Release
<1> QED BY <1>4, <1>5 DEF GateStep, Gate!Next

LEMMA QuietKeeps ==
    ASSUME Managed, UNCHANGED <<phase, drained, requestVars>>
    PROVE  Managed' /\ UNCHANGED Gate!vars
BY DEF Managed, ActiveExact, DrainExact, requestVars, Gate!vars

-----------------------------------------------------------------------------
(* Steps of requests, probes and checks, and the drain that other code     *)
(* begins, disturb nothing that Serve relies on: a drained manager stays   *)
(* drained, and a probe that arrives during the drain does not go on.      *)
LEMMA BesideServe ==
    ASSUME IInv, UNCHANGED serveVars, Managed',
           phase' = phase \/ phase' \in {"draining", "stopped"},
           phase \in {"draining", "stopped"} => phase' = phase,
           drained => drained',
           (phase # "ready" /\ ProbesQuiet) => ProbesQuiet'
    PROVE  ServeInv'
<1>1. DrainExact /\ phase \in Phases
  BY DEF IInv, Types
<1>2. drained => phase # "ready"
  BY <1>1 DEF DrainExact
<1> QED BY <1>1, <1>2 DEF IInv, ServeInv, serveVars, Early, Drained, Shut, Waited, Stopped

LEMMA ProbesWait ==
    ASSUME IInv, Delivery \/ Goroutines, phase # "ready", ProbesQuiet PROVE ProbesQuiet'
BY DEF IInv, Types, ProbesQuiet, Delivery, Goroutines, Arrive, ProbeArrive, RequestSteps, Acquire, Hijack,
   Release, ProbeSteps, ProbeReadPhase, LaunchCheck, AllLaunched, ProbeAnswer, ProbeTimeout, CheckSteps,
   CheckReturns, CheckLeaves, probeVars

LEMMA BesideTypes ==
    ASSUME IInv, Delivery \/ Goroutines PROVE Types'
<1> USE DEF IInv, Types, serveVars
<1>1. CASE Delivery
  BY <1>1 DEF Delivery, Arrive, ProbeArrive, requestVars, probeVars
<1>2. CASE Goroutines /\ RequestSteps
  BY <1>2 DEF Goroutines, RequestSteps, Acquire, Hijack, Release, probeVars
<1>3. CASE Goroutines /\ ProbeSteps
  BY <1>3 DEF Goroutines, ProbeSteps, ProbeReadPhase, LaunchCheck, AllLaunched, ProbeAnswer, ProbeTimeout,
     requestVars
<1>4. CASE Goroutines /\ CheckSteps
  BY <1>4 DEF Goroutines, CheckSteps, CheckReturns, CheckLeaves, requestVars
<1> QED BY <1>1, <1>2, <1>3, <1>4 DEF Goroutines

LEMMA BesideKeeps ==
    ASSUME IInv, Delivery \/ Goroutines PROVE IInv' /\ GateStep
<1>0. Managed /\ UNCHANGED serveVars
  BY DEF IInv, Types, Managed, Delivery, Goroutines
<1>1. Managed' /\ GateStep /\ phase' = phase /\ (drained => drained')
  <2>1. ASSUME NEW r \in Requests, Arrive(r) \/ Hijack(r)
        PROVE Managed' /\ GateStep /\ phase' = phase /\ (drained => drained')
    BY <1>0, <2>1, ArriveKeeps DEF IInv, Types, Arrive, Hijack, GateStep
  <2>2. ASSUME NEW r \in Requests, Acquire(r)
        PROVE Managed' /\ GateStep /\ phase' = phase /\ (drained => drained')
    BY <1>0, <2>2, AcquireKeeps DEF IInv, Types, Acquire
  <2>3. ASSUME NEW r \in Requests, Release(r)
        PROVE Managed' /\ GateStep /\ phase' = phase /\ (drained => drained')
    BY <1>0, <2>3, ReleaseKeeps DEF IInv, Types, Release
  <2>4. CASE (\E p \in Probes : ProbeArrive(p)) \/ ProbeSteps \/ CheckSteps
    <3>1. UNCHANGED <<phase, drained, requestVars>>
      BY <2>4 DEF ProbeArrive, ProbeSteps, CheckSteps, ProbeReadPhase, LaunchCheck, AllLaunched, ProbeAnswer,
         ProbeTimeout, CheckReturns, CheckLeaves
    <3> QED BY <1>0, <3>1, QuietKeeps DEF GateStep
  <2> QED BY <2>1, <2>2, <2>3, <2>4 DEF Delivery, Goroutines, RequestSteps
<1>2. ServeInv'
  BY <1>0, <1>1, ProbesWait, BesideServe
<1> QED BY <1>1, <1>2, BesideTypes DEF IInv, Managed

LEMMA DrainElsewhereKeeps == ASSUME IInv, DrainElsewhere PROVE IInv' /\ GateStep
<1>1. Managed' /\ GateStep /\ phase' \in {"draining", "stopped"}
  BY BeginDrainKeeps DEF DrainElsewhere, IInv, Types, Managed
<1>2. UNCHANGED serveVars /\ UNCHANGED <<request, probe>> /\ (drained => drained')
  BY DEF DrainElsewhere, BeginDrain, requestVars, probeVars
<1>3. ServeInv'
  BY <1>1, <1>2, BesideServe DEF DrainElsewhere, ProbesQuiet
<1>4. Types'
  BY <1>1, <1>2 DEF IInv, Types, Managed, serveVars
<1> QED BY <1>1, <1>3, <1>4 DEF IInv, Managed

-----------------------------------------------------------------------------
(* The steps of Serve that leave the manager alone. *)
LEMMA ServeAlone ==
    ASSUME IInv, UNCHANGED managerVars,
           Validate \/ Listen \/ CloseListener \/ StopServing \/ ShutdownHTTP \/ AwaitServe \/ AwaitDrain
           \/ StopApplication \/ ApplicationStopped \/ Cancel \/ ListenerFails \/ Expire
    PROVE  IInv' /\ GateStep
<1> USE DEF managerVars, requestVars, probeVars
<1>1. Managed' /\ UNCHANGED Gate!vars
  BY QuietKeeps DEF IInv, Types, Managed
<1>2. Types'
  BY DEF IInv, Types, ServeLabels, Validate, Listen, CloseListener, StopServing, ShutdownHTTP, AwaitServe,
     AwaitDrain, StopApplication, ApplicationStopped, Cancel, ListenerFails, Expire
<1>3. ServeInv'
  <2>0. UNCHANGED <<phase, drained, probe>> /\ (ProbesQuiet <=> ProbesQuiet')
    BY DEF ProbesQuiet
  <2> USE <2>0 DEF IInv, Types, ServeInv, Early, Drained, Shut, Waited, Stopped
  <2>1. CASE Validate
    BY <2>1 DEF Validate
  <2>2. CASE Listen
    BY <2>2 DEF Listen
  <2>3. CASE CloseListener
    BY <2>3 DEF CloseListener
  <2>4. CASE StopServing
    BY <2>4 DEF StopServing
  <2>5. CASE ShutdownHTTP
    BY <2>5 DEF ShutdownHTTP, ProbeInFlight, ProbesQuiet
  <2>6. CASE AwaitServe
    BY <2>6 DEF AwaitServe
  <2>7. CASE AwaitDrain
    BY <2>7 DEF AwaitDrain
  <2>8. CASE StopApplication
    <3>1. /\ pc = "stopApp" /\ pc' = "stopping" /\ stops = 0 /\ UNCHANGED <<expired, http, errs>>
          /\ stops' = stops + 1
      BY <2>8 DEF StopApplication
    <3>2. early' => ~expired
      BY <2>8, Zenon DEF StopApplication
    <3>3. ~expired => drained /\ ProbesQuiet
      BY <3>1
    <3>4. stops' = 1
      BY <3>1
    <3> QED BY <3>1, <3>2, <3>3, <3>4
  <2>9. CASE ApplicationStopped
    BY <2>9 DEF ApplicationStopped
  <2>10. CASE Cancel \/ ListenerFails \/ Expire
    BY <2>10 DEF Cancel, ListenerFails, Expire
  <2> QED BY <2>1, <2>2, <2>3, <2>4, <2>5, <2>6, <2>7, <2>8, <2>9, <2>10
<1> QED BY <1>1, <1>2, <1>3 DEF IInv, Managed, GateStep

LEMMA ServeMarkReadyKeeps == ASSUME IInv, ServeMarkReady PROVE IInv' /\ GateStep
<1>1. Managed' /\ UNCHANGED Gate!vars
  BY MarkReadyKeeps DEF ServeMarkReady, IInv, Types, Managed
<1>2. UNCHANGED <<request, probe, drained>> /\ (ProbesQuiet <=> ProbesQuiet')
  BY DEF ServeMarkReady, MarkReady, requestVars, probeVars, ProbesQuiet
<1>3. Types'
  BY <1>1, <1>2 DEF ServeMarkReady, IInv, Types, Managed, ServeLabels
<1>4. ServeInv'
  BY <1>2 DEF ServeMarkReady, MarkReady, MarkReadyAccepted, IInv, Types, Phases, ServeInv, Early, Drained, Shut,
     Waited, Stopped
<1> QED BY <1>1, <1>3, <1>4 DEF IInv, Managed, GateStep

LEMMA ServeBeginDrainKeeps == ASSUME IInv, ServeBeginDrain PROVE IInv' /\ GateStep
<1>1. Managed' /\ GateStep /\ phase' \in {"draining", "stopped"}
  BY BeginDrainKeeps DEF ServeBeginDrain, IInv, Types, Managed
<1>2. UNCHANGED <<request, probe>> /\ (ProbesQuiet <=> ProbesQuiet') /\ (drained => drained')
  BY DEF ServeBeginDrain, BeginDrain, requestVars, probeVars, ProbesQuiet
<1>3. Types'
  BY <1>1, <1>2 DEF ServeBeginDrain, IInv, Types, Managed, ServeLabels
<1>4. ServeInv'
  BY <1>1, <1>2 DEF ServeBeginDrain, IInv, Types, ServeInv, Early, Drained, Shut, Waited, Stopped
<1> QED BY <1>1, <1>3, <1>4 DEF IInv, Managed

LEMMA ServeMarkStoppedKeeps == ASSUME IInv, ServeMarkStopped PROVE IInv' /\ GateStep
<1>1. Managed' /\ UNCHANGED Gate!vars
  BY MarkStoppedKeeps DEF ServeMarkStopped, IInv, Types, Managed
<1>2. UNCHANGED <<request, probe, drained>> /\ (ProbesQuiet <=> ProbesQuiet')
  BY DEF ServeMarkStopped, MarkStopped, requestVars, probeVars, ProbesQuiet
<1>3. Types'
  BY <1>1, <1>2 DEF ServeMarkStopped, IInv, Types, Managed, ServeLabels
<1>4. ServeInv'
  BY <1>2 DEF ServeMarkStopped, MarkStopped, MarkStoppedAccepted, IInv, Types, Phases, ServeInv, Early, Drained,
     Shut, Waited, Stopped
<1> QED BY <1>1, <1>3, <1>4 DEF IInv, Managed, GateStep

LEMMA StepSimulation == IInv /\ [Next]_vars => IInv' /\ [Gate!Next]_(Gate!vars)
<1> SUFFICES ASSUME IInv, [Next]_vars PROVE IInv' /\ GateStep
  BY DEF GateStep
<1>1. CASE ServeSteps
  <2>1. \/ ServeMarkReady \/ ServeBeginDrain \/ ServeMarkStopped
        \/ /\ Validate \/ Listen \/ CloseListener \/ StopServing \/ ShutdownHTTP \/ AwaitServe
              \/ AwaitDrain \/ StopApplication \/ ApplicationStopped
           /\ UNCHANGED managerVars
    BY <1>1 DEF ServeSteps, Validate, Listen, CloseListener, StopServing, ShutdownHTTP, AwaitServe, AwaitDrain,
       StopApplication, ApplicationStopped
  <2> QED BY <2>1, ServeAlone, ServeMarkReadyKeeps, ServeBeginDrainKeeps, ServeMarkStoppedKeeps
<1>2. CASE Cancel \/ ListenerFails \/ Expire
  <2>1. UNCHANGED managerVars
    BY <1>2 DEF Cancel, ListenerFails, Expire
  <2> QED BY <1>2, <2>1, ServeAlone
<1>3. CASE DrainElsewhere
  BY <1>3, DrainElsewhereKeeps
<1>4. CASE Delivery \/ Goroutines
  BY <1>4, BesideKeeps
<1>5. CASE UNCHANGED vars
  <2>1. UNCHANGED <<serveVars, managerVars>>
    BY <1>5 DEF vars
  <2>2. Managed' /\ UNCHANGED Gate!vars
    BY <2>1, QuietKeeps DEF managerVars, IInv, Types, Managed
  <2>3. Types' /\ ServeInv'
    BY <2>1 DEF managerVars, serveVars, requestVars, probeVars, IInv, Types, ServeInv, ProbesQuiet, Early
  <2> QED BY <2>2, <2>3 DEF IInv, Managed, GateStep
<1> QED BY <1>1, <1>2, <1>3, <1>4, <1>5 DEF Next

LEMMA Invariance == Spec => []IInv
BY InitIInv, StepSimulation, PTL DEF Spec

(* The manager is a lease gate for any number of requests: Manager.drained *)
(* is closed exactly when the drain has begun and the last one has left.   *)
THEOREM ImplementsGate == Spec => GateSpec
BY InitIInv, StepSimulation, PTL DEF Spec, GateSpec, Gate!Spec

(* Serve "drains accepted requests, and then stops application resources": *)
(* before its deadline it stops the application only when no accepted      *)
(* request runs and no probe uses a dependency check.                      *)
THEOREM StopsWhenQuiet == Spec => []StopsApplicationWhenQuiet
<1>1. IInv => StopsApplicationWhenQuiet
  BY DEF IInv, ServeInv, DrainExact, ActiveExact, ProbesQuiet, StopsApplicationWhenQuiet
<1> QED BY <1>1, Invariance, PTL

(* Whichever step of Serve fails, the application has been stopped exactly *)
(* once when it returns, and no error means a complete shutdown.           *)
THEOREM ReturnStopped == Spec => []ReturnMeansStopped
<1>1. IInv => ReturnMeansStopped
  BY DEF IInv, ServeInv, DrainExact, ActiveExact, Stopped, ReturnMeansStopped
<1> QED BY <1>1, Invariance, PTL

(* For any number of requests, probes and checks, Serve stops the          *)
(* application once, after the work it accepted.                           *)
THEOREM StopsOnce == Spec => []StopsOnceWhenQuiet
BY StopsWhenQuiet, ReturnStopped, PTL DEF StopsOnceWhenQuiet

-----------------------------------------------------------------------------
(* What a probe's results channel has received of its checks. *)
Results == result \in [Probes -> [Checks -> {"none", "ok", "failed"}]]

(* What ChecksPassForTheirProbe says of a step. *)
PassesForItsProbe ==
    \A p \in Probes, k \in Checks :
        result'[p][k] = "ok" /\ result[p][k] # "ok" =>
            gate[k] # None /\ gate[k].by = p /\ ~gate[k].reported

LEMMA ResultsStep == ASSUME Results, [Next]_vars PROVE Results' /\ PassesForItsProbe
<1>1. CASE UNCHANGED result
  BY <1>1 DEF Results, PassesForItsProbe
<1>2. ASSUME NEW p \in Probes, NEW k \in Checks, LaunchCheck(p, k) PROVE Results' /\ PassesForItsProbe
  BY <1>2 DEF LaunchCheck, Results, PassesForItsProbe
<1>3. ASSUME NEW k \in Checks, NEW outcome \in {"ok", "failed"}, CheckReturns(k, outcome)
      PROVE  Results' /\ PassesForItsProbe
  <2>1. gate[k] # None /\ ~gate[k].reported
    BY <1>3 DEF CheckReturns
  <2> DEFINE b == gate[k].by
  <2>2. result' = [result EXCEPT ![b][k] = outcome]
    BY <1>3 DEF CheckReturns
  <2> HIDE DEF b
  <2>3. Results'
    BY <2>2 DEF Results
  <2>4. \A q \in Probes, c \in Checks : q # b \/ c # k => result'[q][c] = result[q][c]
    BY <2>2 DEF Results
  <2> QED BY <2>1, <2>3, <2>4 DEF PassesForItsProbe, b
<1>4. UNCHANGED result \/ (\E p \in Probes, k \in Checks : LaunchCheck(p, k))
        \/ (\E k \in Checks, outcome \in {"ok", "failed"} : CheckReturns(k, outcome))
  <2>1. CASE Goroutines
    BY <2>1 DEF Goroutines, RequestSteps, Acquire, Hijack, Release, ProbeSteps, ProbeReadPhase, AllLaunched,
       ProbeAnswer, ProbeTimeout, CheckSteps, CheckLeaves, probeVars
  <2>2. CASE Delivery
    BY <2>2 DEF Delivery, Arrive, ProbeArrive, probeVars
  <2>3. CASE Cancel \/ ListenerFails \/ Expire \/ DrainElsewhere \/ UNCHANGED vars
    BY <2>3 DEF Cancel, ListenerFails, Expire, DrainElsewhere, BeginDrain, vars, managerVars, probeVars
  <2>4. CASE ServeSteps
    BY <2>4 DEF ServeSteps, Validate, Listen, ServeMarkReady, MarkReady, CloseListener, StopServing, ServeBeginDrain,
       BeginDrain, ShutdownHTTP, AwaitServe, AwaitDrain, StopApplication, ApplicationStopped, ServeMarkStopped,
       MarkStopped, managerVars, probeVars
  <2> QED BY <2>1, <2>2, <2>3, <2>4 DEF Next
<1> QED BY <1>1, <1>2, <1>3, <1>4

(* For any number of probes and checks: no check that another probe is     *)
(* waiting for, and no late result, makes a probe ready                    *)
(* (dependenciesReady).                                                    *)
THEOREM ChecksPass == Spec => ChecksPassForTheirProbe
<1>1. Init => Results
  BY DEF Init, ManagerInit, Results
<1>2. Results /\ [Next]_vars => Results'
  BY ResultsStep
<1>3. Results /\ [Next]_vars => [PassesForItsProbe]_vars
  BY ResultsStep
<1> QED BY <1>1, <1>2, <1>3, PTL DEF Spec, ChecksPassForTheirProbe, PassesForItsProbe
=============================================================================
