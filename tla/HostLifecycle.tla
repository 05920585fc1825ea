---------------------------- MODULE HostLifecycle ----------------------------
(***************************************************************************)
(* module.Host: one goroutine starts (or migrates) the Modules in          *)
(* dependency order, Shutdown callers arrive at any time, facade calls     *)
(* hold leases of the assembly gate, Module code keeps using its Scope     *)
(* until it expires, and cleanup callbacks may ignore their timeout.  Each *)
(* action is one critical section, one channel operation or one callback.  *)
(* Modules are numbered in the topological order of their graph; the       *)
(* registry of Actions is ActionRegistry and appears here only as the      *)
(* revocation that precedes every cleanup.                                 *)
(***************************************************************************)
EXTENDS Naturals, Sequences, FiniteSets

CONSTANTS
    N,                      \* the number of registered Modules
    DatabaseSet,            \* the database provider and its dependencies
    MaxCleanups,            \* OnStop registrations of one Module
    Callers,                \* callers of Shutdown
    Calls                   \* facade calls

Modules == 1..N

ASSUME HostAssumption ==
    N \in Nat /\ DatabaseSet \subseteq Modules /\ MaxCleanups \in Nat

VARIABLES
    state,                  \* Host.state
    mode,                   \* which of Start and Migrate runs, if any
    pc,                     \* where that call is
    next,                   \* the Module it works on
    ctxDone,                \* the start context is cancelled
    stopRequested,          \* Host.stopRequested
    startDone,              \* Host.startDone is closed
    scope,                  \* the Modules whose installScope is active
    runtimes,               \* Host.runtimes
    registered,             \* the number of cleanups a Module registered
    services,               \* the Modules with published services
    revoked,                \* the Action registry is revoked
    open, leases, drained,  \* the assembly gate
    assembled,              \* Host.Assemble has handed the facades out
    cleaner,                \* where the cleanup is
    todo,                   \* the runtimes it has still to clean
    left,                   \* the cleanups of the current runtime not yet invoked
    running,                \* the cleanup callbacks that run
    log,                    \* the cleanup callbacks invoked so far, in order
    cleanErr,               \* the cleanup has met an error
    doneCloses,             \* how often Host.shutdownDone was closed
    shutdownErr,            \* Host.shutdownErr is an error
    caller                  \* where a Shutdown caller is

startVars == <<mode, pc, next, ctxDone, startDone>>
installVars == <<scope, registered, services>>
gateVars == <<open, leases, drained, assembled>>
cleanVars == <<cleaner, todo, left, running, log, cleanErr>>
endVars == <<doneCloses, shutdownErr>>
vars == <<state, stopRequested, runtimes, revoked, startVars, installVars, gateVars,
          cleanVars, endVars, caller>>

Gate == INSTANCE LeaseGate WITH Callers <- Calls, active <- leases

States == {"new", "starting", "running", "stopping", "stopped", "failed"}
Terminal == {"stopped", "failed"}
Cleanups == Modules \X (1..MaxCleanups)
StartLabels == {"idle", "validate", "check", "callback", "bind", "migrate", "final",
                "cleanFailure", "cleanMigration", "finish", "returned"}
CleanLabels == {"off", "await", "reset", "module", "invoke", "wait", "complete"}
CallerLabels == {"idle", "cancel", "waitStart", "waitDone", "nil", "error", "context", "refused"}

TypeOK ==
    /\ state \in States
    /\ mode \in {"none", "start", "migrate"}
    /\ pc \in StartLabels
    /\ next \in 1..(N + 1)
    /\ ctxDone \in BOOLEAN /\ stopRequested \in BOOLEAN /\ startDone \in BOOLEAN
    /\ scope \subseteq Modules
    /\ runtimes \in Seq(Modules)
    /\ registered \in [Modules -> 0..MaxCleanups]
    /\ services \subseteq Modules
    /\ revoked \in BOOLEAN /\ assembled \in BOOLEAN
    /\ Gate!TypeOK
    /\ cleaner \in CleanLabels
    /\ todo \in Seq(Modules)
    /\ left \in 0..MaxCleanups
    /\ running \subseteq Cleanups
    /\ log \in Seq(Cleanups)
    /\ cleanErr \in BOOLEAN /\ shutdownErr \in BOOLEAN
    /\ doneCloses \in 0..1
    /\ caller \in [Callers -> CallerLabels]

Init ==
    /\ state = "new" /\ mode = "none" /\ pc = "idle" /\ next = 1
    /\ ctxDone = FALSE /\ stopRequested = FALSE /\ startDone = FALSE
    /\ scope = {} /\ runtimes = <<>> /\ registered = [m \in Modules |-> 0] /\ services = {}
    /\ revoked = FALSE /\ assembled = FALSE
    /\ Gate!Init
    /\ cleaner = "off" /\ todo = <<>> /\ left = 0 /\ running = {} /\ log = <<>> /\ cleanErr = FALSE
    /\ doneCloses = 0 /\ shutdownErr = FALSE
    /\ caller = [k \in Callers |-> "idle"]

-----------------------------------------------------------------------------
(* Start and Migrate. *)

Begin(how) ==
    /\ state = "new"
    /\ state' = "starting"
    /\ mode' = how
    /\ pc' = "validate"
    /\ UNCHANGED <<next, ctxDone, startDone, stopRequested, runtimes, revoked, installVars,
                   gateVars, cleanVars, endVars, caller>>

Start == Begin("start")

Migrate == Begin("migrate")

(* The parent context of the call is cancelled. *)
CancelStart ==
    /\ state = "starting"
    /\ ~ctxDone
    /\ ctxDone' = TRUE
    /\ UNCHANGED <<state, mode, pc, next, startDone, stopRequested, runtimes, revoked, installVars,
                   gateVars, cleanVars, endVars, caller>>

(* startFailure: this goroutine cleans the runtimes that exist so far. *)
CleanFrom(list) ==
    /\ pc' = "cleanFailure"
    /\ cleaner' = "reset"
    /\ todo' = list

(* completeStartFailure and completeMigration. *)
Conclude(end, failed) ==
    /\ state' = end
    /\ shutdownErr' = failed
    /\ doneCloses' = IF doneCloses = 0 THEN 1 ELSE doneCloses
    /\ pc' = "finish"

(* validateRegistrations fails, or nothing has to be migrated. *)
Validate ==
    /\ pc = "validate"
    /\ \/ /\ pc' = "check"
          /\ UNCHANGED <<state, endVars>>
       \/ Conclude(IF stopRequested THEN "stopped" ELSE "failed", FALSE)
       \/ mode = "migrate" /\ Conclude("stopped", FALSE)
    /\ UNCHANGED <<mode, next, ctxDone, startDone, stopRequested, runtimes, revoked, installVars,
                   gateVars, cleanVars, caller>>

(* Migrate starts the database provider and what it depends on. *)
InStartupSet(m) == mode = "start" \/ m \in DatabaseSet

(* The head of the loop over graph.Order: the end of the order, a Module   *)
(* Migrate leaves alone, the context test, and the migrations that precede *)
(* the Start callback.                                                     *)
CheckModule ==
    /\ pc = "check"
    /\ \/ /\ next = N + 1
          /\ pc' = IF mode = "start" THEN "final" ELSE "migrate"
          /\ UNCHANGED <<next, scope, cleaner, todo>>
       \/ /\ next <= N /\ ~InStartupSet(next)
          /\ next' = next + 1
          /\ UNCHANGED <<pc, scope, cleaner, todo>>
       \/ /\ next <= N /\ InStartupSet(next)
          /\ IF ctxDone
             THEN CleanFrom(runtimes) /\ UNCHANGED scope
             ELSE \/ pc' = "callback" /\ scope' = scope \cup {next} /\ UNCHANGED <<cleaner, todo>>
                  \/ mode = "start" /\ CleanFrom(Append(runtimes, next)) /\ UNCHANGED scope
          /\ UNCHANGED next
    /\ UNCHANGED <<state, mode, ctxDone, startDone, stopRequested, runtimes, revoked, registered,
                   services, gateVars, left, running, log, cleanErr, endVars, caller>>

(* Module code registers a cleanup, from its Start callback or from a      *)
(* goroutine that keeps the Scope: installScope.onStop.                    *)
(* Mutant: an expired Scope still accepts it. *)
OnStopLate(m) ==
    /\ state = "starting"
    /\ next = m
    /\ registered[m] < MaxCleanups
    /\ registered' = [registered EXCEPT ![m] = @ + 1]
    /\ UNCHANGED <<state, stopRequested, runtimes, revoked, startVars, scope, services, gateVars,
                   cleanVars, endVars, caller>>

OnStop(m) ==
    /\ m \in scope
    /\ state = "starting"
    /\ registered[m] < MaxCleanups
    /\ registered' = [registered EXCEPT ![m] = @ + 1]
    /\ UNCHANGED <<state, stopRequested, runtimes, revoked, startVars, scope, services, gateVars,
                   cleanVars, endVars, caller>>

(* The same for installScope.provideService. *)
Provide(m) ==
    /\ m \in scope
    /\ state = "starting"
    /\ m \notin services
    /\ services' = services \cup {m}
    /\ UNCHANGED <<state, stopRequested, runtimes, revoked, startVars, scope, registered, gateVars,
                   cleanVars, endVars, caller>>

(* The Start callback returns, fails or panics, and the Scope expires. *)
StartCallback ==
    /\ pc = "callback"
    /\ scope' = {}
    /\ \/ pc' = "bind" /\ UNCHANGED <<cleaner, todo>>
       \/ CleanFrom(Append(runtimes, next))
    /\ UNCHANGED <<state, mode, next, ctxDone, startDone, stopRequested, runtimes, revoked,
                   registered, services, gateVars, left, running, log, cleanErr, endVars, caller>>

(* The rest of the loop: the context test, the migrations of the database  *)
(* provider, the handler factories and the bindings may each fail; else    *)
(* the runtime is recorded.  Migrate records it at once.                   *)
Bind ==
    /\ pc = "bind"
    /\ \/ /\ mode = "migrate" \/ ~ctxDone
          /\ runtimes' = Append(runtimes, next)
          /\ next' = next + 1
          /\ pc' = "check"
          /\ UNCHANGED <<cleaner, todo>>
       \/ /\ mode = "start"
          /\ CleanFrom(Append(runtimes, next))
          /\ UNCHANGED <<runtimes, next>>
    /\ UNCHANGED <<state, mode, ctxDone, startDone, stopRequested, revoked, installVars, gateVars,
                   left, running, log, cleanErr, endVars, caller>>

(* Migrate applies the migrations of every Module, then cleans up. *)
ApplyMigrations ==
    /\ pc = "migrate"
    /\ pc' \in {"cleanFailure", "cleanMigration"}
    /\ cleaner' = "reset"
    /\ todo' = runtimes
    /\ UNCHANGED <<state, mode, next, ctxDone, startDone, stopRequested, runtimes, revoked, installVars,
                   gateVars, left, running, log, cleanErr, endVars, caller>>

(* Mutant: only the context is tested before the Host runs. *)
FinalIgnoringStop ==
    /\ pc = "final"
    /\ IF ctxDone
       THEN CleanFrom(runtimes) /\ UNCHANGED state
       ELSE state' = "running" /\ pc' = "finish" /\ UNCHANGED <<cleaner, todo>>
    /\ UNCHANGED <<mode, next, ctxDone, startDone, stopRequested, runtimes, revoked, installVars,
                   gateVars, left, running, log, cleanErr, endVars, caller>>

(* The last critical section of Start. *)
Final ==
    /\ pc = "final"
    /\ IF stopRequested \/ ctxDone
       THEN CleanFrom(runtimes) /\ UNCHANGED state
       ELSE state' = "running" /\ pc' = "finish" /\ UNCHANGED <<cleaner, todo>>
    /\ UNCHANGED <<mode, next, ctxDone, startDone, stopRequested, runtimes, revoked, installVars,
                   gateVars, left, running, log, cleanErr, endVars, caller>>

(* The deferred finishStart: cancel the start context, close startDone. *)
FinishStart ==
    /\ pc = "finish"
    /\ pc' = "returned"
    /\ ctxDone' = TRUE
    /\ startDone' = TRUE
    /\ UNCHANGED <<state, mode, next, stopRequested, runtimes, revoked, installVars, gateVars,
                   cleanVars, endVars, caller>>

-----------------------------------------------------------------------------
(* The facades: Assemble while the Host runs, and the calls through them. *)

Assemble ==
    /\ state = "running"
    /\ ~assembled
    /\ assembled' = TRUE
    /\ UNCHANGED <<state, stopRequested, runtimes, revoked, startVars, installVars, open, leases,
                   drained, cleanVars, endVars, caller>>

Enter(k) ==
    /\ assembled
    /\ Gate!Acquire(k)
    /\ UNCHANGED <<state, stopRequested, runtimes, revoked, startVars, installVars, assembled,
                   cleanVars, endVars, caller>>

(* Mutant: the last call of a revoked gate does not report the drain. *)
LeaveSilently(k) ==
    /\ k \in leases
    /\ leases' = leases \ {k}
    /\ UNCHANGED <<state, stopRequested, runtimes, revoked, startVars, installVars, assembled, open,
                   drained, cleanVars, endVars, caller>>

Leave(k) ==
    /\ Gate!Release(k)
    /\ UNCHANGED <<state, stopRequested, runtimes, revoked, startVars, installVars, assembled,
                   cleanVars, endVars, caller>>

-----------------------------------------------------------------------------
(* Shutdown. *)

Answer == IF shutdownErr THEN "error" ELSE "nil"

(* Shutdown of a Host that runs. *)
StopRunning(k) ==
    /\ state = "running"
    /\ caller[k] = "idle"
    /\ state' = "stopping"
    /\ Gate!Close
    /\ revoked' = TRUE
    /\ todo' = runtimes
    /\ cleaner' = "await"
    /\ caller' = [caller EXCEPT ![k] = "waitDone"]
    /\ UNCHANGED <<stopRequested, runtimes, startVars, installVars, assembled, left, running, log,
                   cleanErr, endVars>>

(* Shutdown of a Host that starts: the flag is set in the critical section *)
(* and the start context is cancelled after it.                            *)
StopStarting(k) ==
    /\ state = "starting"
    /\ caller[k] = "idle"
    /\ stopRequested' = TRUE
    /\ caller' = [caller EXCEPT ![k] = "cancel"]
    /\ UNCHANGED <<state, runtimes, revoked, startVars, installVars, gateVars, cleanVars, endVars>>

CancelByCaller(k) ==
    /\ caller[k] = "cancel"
    /\ ctxDone' = TRUE
    /\ caller' = [caller EXCEPT ![k] = "waitStart"]
    /\ UNCHANGED <<state, stopRequested, runtimes, revoked, mode, pc, next, startDone, installVars,
                   gateVars, cleanVars, endVars>>

(* Shutdown in the other states. *)
ShutdownElse(k) ==
    /\ caller[k] = "idle"
    /\ \/ state = "stopping" /\ caller' = [caller EXCEPT ![k] = "waitDone"]
       \/ state \in Terminal /\ caller' = [caller EXCEPT ![k] = Answer]
       \/ state = "new" /\ caller' = [caller EXCEPT ![k] = "refused"]
    /\ UNCHANGED <<state, stopRequested, runtimes, revoked, startVars, installVars, gateVars,
                   cleanVars, endVars>>

DoneFor(k) == IF caller[k] = "waitStart" THEN startDone ELSE doneCloses > 0

(* waitForShutdown: the result once the channel is closed, or the caller's *)
(* context, which may win even then because it is tested first.            *)
WaitForShutdown(k) ==
    /\ caller[k] \in {"waitStart", "waitDone"}
    /\ \/ DoneFor(k) /\ caller' = [caller EXCEPT ![k] = Answer]
       \/ caller' = [caller EXCEPT ![k] = "context"]
    /\ UNCHANGED <<state, stopRequested, runtimes, revoked, startVars, installVars, gateVars,
                   cleanVars, endVars>>

-----------------------------------------------------------------------------
(* The cleanup, run by the starting goroutine or by finishShutdown. *)

(* Mutant: finishShutdown does not wait for the facades. *)
AwaitDrainedNot ==
    /\ cleaner = "await"
    /\ cleaner' = "reset"
    /\ UNCHANGED <<state, stopRequested, runtimes, revoked, startVars, installVars, gateVars, todo,
                   left, running, log, cleanErr, endVars, caller>>

AwaitDrained ==
    /\ cleaner = "await"
    /\ drained
    /\ cleaner' = "reset"
    /\ UNCHANGED <<state, stopRequested, runtimes, revoked, startVars, installVars, gateVars, todo,
                   left, running, log, cleanErr, endVars, caller>>

(* registry.Reset: no binding is left to call a Module that is cleaned. *)
ResetRegistry ==
    /\ cleaner = "reset"
    /\ revoked' = TRUE
    /\ cleaner' = IF todo = <<>> THEN "complete" ELSE "module"
    /\ UNCHANGED <<state, stopRequested, runtimes, startVars, installVars, gateVars, todo, left,
                   running, log, cleanErr, endVars, caller>>

Current == todo[Len(todo)]

(* moduleRuntime.beginCleanup; a runtime is in the list once, so that its  *)
(* cleaned flag is never found set.                                        *)
BeginCleanup ==
    /\ cleaner = "module"
    /\ left' = registered[Current]
    /\ cleaner' = "invoke"
    /\ UNCHANGED <<state, stopRequested, runtimes, revoked, startVars, installVars, gateVars, todo,
                   running, log, cleanErr, endVars, caller>>

(* Mutant: the cleanups run in the order of their registration. *)
InvokeCleanupFifo ==
    /\ cleaner = "invoke"
    /\ left > 0
    /\ LET i == registered[Current] - left + 1
       IN  running' = running \cup {<<Current, i>>} /\ log' = Append(log, <<Current, i>>)
    /\ cleaner' = "wait"
    /\ UNCHANGED <<state, stopRequested, runtimes, revoked, startVars, installVars, gateVars, todo,
                   left, cleanErr, endVars, caller>>

(* invokeCleanupBounded runs the callback in a goroutine of its own ... *)
InvokeCleanup ==
    /\ cleaner = "invoke"
    /\ left > 0
    /\ running' = running \cup {<<Current, left>>}
    /\ log' = Append(log, <<Current, left>>)
    /\ cleaner' = "wait"
    /\ UNCHANGED <<state, stopRequested, runtimes, revoked, startVars, installVars, gateVars, todo,
                   left, cleanErr, endVars, caller>>

(* Mutant: a timeout is not counted as an error. *)
AwaitCleanupForgiving ==
    /\ cleaner = "wait"
    /\ \/ /\ running' = running \ {<<Current, left>>}
          /\ cleanErr' \in {cleanErr, TRUE}
       \/ UNCHANGED <<running, cleanErr>>
    /\ left' = left - 1
    /\ cleaner' = "invoke"
    /\ UNCHANGED <<state, stopRequested, runtimes, revoked, startVars, installVars, gateVars, todo,
                   log, endVars, caller>>

(* ... and takes its result, or leaves it behind at the timeout. *)
AwaitCleanup ==
    /\ cleaner = "wait"
    /\ \/ /\ running' = running \ {<<Current, left>>}
          /\ cleanErr' \in {cleanErr, TRUE}
       \/ /\ cleanErr' = TRUE
          /\ UNCHANGED running
    /\ left' = left - 1
    /\ cleaner' = "invoke"
    /\ UNCHANGED <<state, stopRequested, runtimes, revoked, startVars, installVars, gateVars, todo,
                   log, endVars, caller>>

(* A callback that ignored its timeout returns at last. *)
Straggle ==
    /\ \E c \in running :
          /\ ~(cleaner = "wait" /\ c = <<Current, left>>)
          /\ running' = running \ {c}
    /\ UNCHANGED <<state, stopRequested, runtimes, revoked, startVars, installVars, gateVars,
                   cleaner, todo, left, log, cleanErr, endVars, caller>>

(* The services of the Module are deleted after its last cleanup. *)
Unpublish ==
    /\ cleaner = "invoke"
    /\ left = 0
    /\ services' = services \ {Current}
    /\ todo' = SubSeq(todo, 1, Len(todo) - 1)
    /\ cleaner' = IF Len(todo) = 1 THEN "complete" ELSE "module"
    /\ UNCHANGED <<state, stopRequested, runtimes, revoked, startVars, scope, registered, gateVars,
                   left, running, log, cleanErr, endVars, caller>>

(* The end of startFailure, of Migrate, and of finishShutdown. *)
CompleteStartFailure ==
    /\ cleaner = "complete"
    /\ pc = "cleanFailure"
    /\ Conclude(IF stopRequested /\ ~cleanErr THEN "stopped" ELSE "failed", cleanErr)
    /\ cleaner' = "off"
    /\ UNCHANGED <<mode, next, ctxDone, startDone, stopRequested, runtimes, revoked, installVars,
                   gateVars, todo, left, running, log, cleanErr, caller>>

CompleteMigration ==
    /\ cleaner = "complete"
    /\ pc = "cleanMigration"
    /\ Conclude(IF cleanErr THEN "failed" ELSE "stopped", cleanErr)
    /\ cleaner' = "off"
    /\ UNCHANGED <<mode, next, ctxDone, startDone, stopRequested, runtimes, revoked, installVars,
                   gateVars, todo, left, running, log, cleanErr, caller>>

FinishShutdown ==
    /\ cleaner = "complete"
    /\ state = "stopping"
    /\ state' = IF cleanErr THEN "failed" ELSE "stopped"
    /\ shutdownErr' = cleanErr
    /\ doneCloses' = doneCloses + 1
    /\ cleaner' = "off"
    /\ UNCHANGED <<stopRequested, runtimes, revoked, startVars, installVars, gateVars, todo, left,
                   running, log, cleanErr, caller>>

-----------------------------------------------------------------------------
Starter ==
    \/ Validate \/ CheckModule \/ StartCallback \/ Bind \/ ApplyMigrations \/ Final
    \/ FinishStart

Cleaner ==
    \/ AwaitDrained \/ ResetRegistry \/ BeginCleanup \/ InvokeCleanup \/ AwaitCleanup
    \/ Unpublish \/ CompleteStartFailure \/ CompleteMigration \/ FinishShutdown

Shutdown(k) ==
    \/ StopRunning(k) \/ StopStarting(k) \/ CancelByCaller(k) \/ ShutdownElse(k)
    \/ WaitForShutdown(k)

Next ==
    \/ Start
    \/ Migrate
    \/ CancelStart
    \/ Starter
    \/ \E m \in Modules : OnStop(m) \/ Provide(m)
    \/ Assemble
    \/ \E k \in Calls : Enter(k) \/ Leave(k)
    \/ Cleaner
    \/ Straggle
    \/ \E k \in Callers : Shutdown(k)

Spec == Init /\ [][Next]_vars

(* The starting goroutine and the cleaning goroutine keep running, Module  *)
(* callbacks return (a cleanup is bounded by its timeout anyway), facade   *)
(* calls end once their context is cancelled by the revocation, and a      *)
(* Shutdown call that began goes on.  Nobody has to call anything.         *)
FairSpec ==
    /\ Spec
    /\ WF_vars(Starter) /\ WF_vars(Cleaner)
    /\ \A k \in Calls : WF_vars(~open /\ Leave(k))
    /\ \A k \in Callers : WF_vars(CancelByCaller(k) \/ WaitForShutdown(k))

-----------------------------------------------------------------------------
(* "The sequence revokes and drains every assembled facade before Module   *)
(* cleanup" (Shutdown): no cleanup callback is invoked while a facade call *)
(* holds its lease, and none enters afterwards.                            *)
CleanupAfterDrain == log # <<>> => leases = {} /\ revoked

(* Cleanups begin in reverse: last Module of the order first, and within a *)
(* Module the last registration first (ShutdownPolicy, Host.cleanup).      *)
CleanupsReversed ==
    \A i, j \in 1..Len(log) :
        i < j => \/ log[j][1] < log[i][1]
                 \/ log[j][1] = log[i][1] /\ log[j][2] < log[i][2]

(* The order of a shutdown: facades revoked and drained first, then the    *)
(* cleanups, each once the ones registered after it have begun             *)
(* (finishShutdown, Host.cleanup).                                         *)
CleansInOrder == CleanupAfterDrain /\ CleanupsReversed

(* A Host that has ended has invoked every cleanup that OnStop accepted,   *)
(* and no service of any Module is still published, whatever failed or     *)
(* panicked and however late the Module used its Scope.                    *)
NothingLeaks ==
    state \in Terminal =>
        /\ {log[i] : i \in 1..Len(log)} = {c \in Cleanups : c[2] <= registered[c[1]]}
        /\ services = {}

(* Shutdown answers nil only when the Host has ended and every cleanup     *)
(* returned in time and without an error (waitForShutdown, shutdownErr).   *)
NilMeansClean ==
    \A k \in Callers :
        caller[k] = "nil" =>
            /\ state \in Terminal
            /\ ~cleanErr
            /\ running = {}
            /\ {log[i] : i \in 1..Len(log)} = {c \in Cleanups : c[2] <= registered[c[1]]}

(* The end of a Host: nothing acquired is left behind, and whoever is told *)
(* that the shutdown succeeded is told so of a complete one (cleanup,      *)
(* waitForShutdown).                                                       *)
EndsClean == NothingLeaks /\ NilMeansClean

(* A Shutdown that found the Host starting wins over Start: the Host never *)
(* runs after it (the last critical section of Start).  And the end is     *)
(* final: no later Start, Migrate or Shutdown moves the Host.              *)
StopWins ==
    [][/\ stopRequested => state' # "running"
       /\ state \in Terminal => state' = state /\ shutdownErr' = shutdownErr /\ log' = log]_vars

(* A Shutdown request, once made, ends the Host, even when every caller    *)
(* stopped waiting ("continues independently if this caller stops          *)
(* waiting", Shutdown).                                                    *)
ShutdownCompletes == (stopRequested \/ state = "stopping") ~> (state \in Terminal)
=============================================================================
