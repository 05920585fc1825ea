--------------------------- MODULE ActionRegistry ---------------------------
(***************************************************************************)
(* internal/actionruntime/registry.go: the table of bound Actions and the  *)
(* leases under which Preview, Execute and CleanupExpiredPlans run.        *)
(*                                                                         *)
(* Every critical section under Registry.mu is one action.  A lease is     *)
(* identified by a uint64 that wraps around; IDSpace is the number of      *)
(* identifiers (2^64 in the code).                                         *)
(***************************************************************************)
EXTENDS Naturals, FiniteSets

CONSTANTS
    Callers,        \* goroutines inside the Action Runtime
    Resetters,      \* goroutines that call Reset (Host cleanup)
    ActionIDs,      \* Action identifiers
    IDSpace,        \* how many lease identifiers there are
    None            \* no caller, no registration

ASSUME IDSpaceAssumption == IDSpace \in Nat \ {0}
ASSUME NoneAssumption == None \notin Callers /\ None \notin ActionIDs

VARIABLES
    actions,        \* Registry.actions: the bound Action identifiers
    leases,         \* Registry.leases: identifier -> caller whose cancel it holds
    nextLeaseID,    \* Registry.nextLeaseID
    revoked,        \* Registry.revoked
    drainClosed,    \* Registry.drainClosed (and the channel drained is closed)
    pc,             \* where each caller is
    leaseID,        \* the identifier captured by the caller's release closure
    handler,        \* the registration the caller captured under the lock
    cancelled,      \* the caller's execution context is cancelled
    reset           \* where each Reset call is

registry == <<actions, leases, nextLeaseID, revoked, drainClosed>>
callers == <<pc, leaseID, handler, cancelled>>
vars == <<registry, callers, reset>>

LeaseIDs == 0 .. IDSpace - 1

(* The fields of Registry and of the callers' closures hold their types;    *)
(* the identifier counter stays within its width.                          *)
TypeOK ==
    /\ actions \subseteq ActionIDs
    /\ leases \in [LeaseIDs -> Callers \cup {None}]
    /\ nextLeaseID \in LeaseIDs
    /\ revoked \in BOOLEAN
    /\ drainClosed \in BOOLEAN
    /\ pc \in [Callers -> {"idle", "derived", "held", "releasing"}]
    /\ leaseID \in [Callers -> LeaseIDs]
    /\ handler \in [Callers -> ActionIDs \cup {None}]
    /\ cancelled \in [Callers -> BOOLEAN]
    /\ reset \in [Resetters -> {"idle", "waiting", "ok", "timeout"}]

Init ==
    /\ actions = {}
    /\ leases = [i \in LeaseIDs |-> None]
    /\ nextLeaseID = 0
    /\ revoked = FALSE
    /\ drainClosed = FALSE
    /\ pc = [c \in Callers |-> "idle"]
    /\ leaseID = [c \in Callers |-> 0]
    /\ handler = [c \in Callers |-> None]
    /\ cancelled = [c \in Callers |-> FALSE]
    /\ reset = [r \in Resetters |-> "idle"]

-----------------------------------------------------------------------------
NoLeases(table) == \A i \in LeaseIDs : table[i] = None

(* Mutant: the signal is raised by revocation alone. *)
CloseDrainedIgnoringLeases(isRevoked, table) == isRevoked

(* closeDrainedLocked: the channel is closed once, when revocation and the *)
(* last release have both happened.                                        *)
CloseDrainedLocked(isRevoked, table) == isRevoked /\ NoLeases(table)

BindPrepared(a) ==
    /\ ~revoked
    /\ a \notin actions
    /\ actions' = actions \cup {a}
    /\ UNCHANGED <<leases, nextLeaseID, revoked, drainClosed, callers, reset>>

(* Mutant: leases survive revocation without being cancelled. *)
RevokeWithoutCancel ==
    /\ revoked' = TRUE
    /\ actions' = {}
    /\ drainClosed' = (drainClosed \/ CloseDrainedLocked(TRUE, leases))
    /\ UNCHANGED <<leases, nextLeaseID, cancelled>>

(* The body of Revoke, also the first half of Reset: a repeated revocation *)
(* changes nothing.                                                        *)
RevokeLocked ==
    IF revoked
    THEN UNCHANGED <<registry, cancelled>>
    ELSE /\ revoked' = TRUE
         /\ actions' = {}
         /\ cancelled' = [c \in Callers |->
                            cancelled[c] \/ \E i \in LeaseIDs : leases[i] = c]
         /\ drainClosed' = (drainClosed \/ CloseDrainedLocked(TRUE, leases))
         /\ UNCHANGED <<leases, nextLeaseID>>

Revoke == RevokeLocked /\ UNCHANGED <<pc, leaseID, handler, reset>>

(* acquire and acquireLease derive the execution context before they take  *)
(* the lock.                                                               *)
Derive(c) ==
    /\ pc[c] = "idle"
    /\ pc' = [pc EXCEPT ![c] = "derived"]
    /\ cancelled' = [cancelled EXCEPT ![c] = FALSE]
    /\ UNCHANGED <<registry, leaseID, handler, reset>>

AcquireRevoked(c) ==
    /\ pc[c] = "derived"
    /\ revoked
    /\ pc' = [pc EXCEPT ![c] = "idle"]
    /\ cancelled' = [cancelled EXCEPT ![c] = TRUE]
    /\ UNCHANGED <<registry, leaseID, handler, reset>>

LeaseAt(k) == (nextLeaseID + k) % IDSpace

(* Mutant: the loop does not skip identifiers still in use. *)
RegisterLeaseUnchecked(c) ==
    /\ nextLeaseID' = LeaseAt(1)
    /\ leases' = [leases EXCEPT ![LeaseAt(1)] = c]
    /\ leaseID' = [leaseID EXCEPT ![c] = LeaseAt(1)]

(* registerLeaseLocked: advance the counter, wrapping around, to the first *)
(* identifier that no active lease uses.                                   *)
RegisterLeaseLocked(c) ==
    \E k \in 1 .. IDSpace :
        /\ leases[LeaseAt(k)] = None
        /\ \A j \in 1 .. k - 1 : leases[LeaseAt(j)] # None
        /\ nextLeaseID' = LeaseAt(k)
        /\ leases' = [leases EXCEPT ![LeaseAt(k)] = c]
        /\ leaseID' = [leaseID EXCEPT ![c] = LeaseAt(k)]

(* acquire: the lease is granted even when the Action is unknown; the      *)
(* registration is copied under the same lock.                             *)
Acquire(c, a) ==
    /\ pc[c] = "derived"
    /\ ~revoked
    /\ RegisterLeaseLocked(c)
    /\ pc' = [pc EXCEPT ![c] = "held"]
    /\ handler' = [handler EXCEPT ![c] = IF a \in actions THEN a ELSE None]
    /\ UNCHANGED <<actions, revoked, drainClosed, cancelled, reset>>

AcquireLease(c) ==
    /\ pc[c] = "derived"
    /\ ~revoked
    /\ RegisterLeaseLocked(c)
    /\ pc' = [pc EXCEPT ![c] = "held"]
    /\ UNCHANGED <<actions, revoked, drainClosed, handler, cancelled, reset>>

(* The release closure runs once: it cancels the execution context, then   *)
(* takes the lock, removes the lease and may close the drain channel.      *)
ReleaseCancel(c) ==
    /\ pc[c] = "held"
    /\ pc' = [pc EXCEPT ![c] = "releasing"]
    /\ handler' = [handler EXCEPT ![c] = None]
    /\ cancelled' = [cancelled EXCEPT ![c] = TRUE]
    /\ UNCHANGED <<registry, leaseID, reset>>

(* Mutant: Reset holds the lock while it waits for the drain. *)
ReleaseLockedAfterReset(c) ==
    /\ \A r \in Resetters : reset[r] # "waiting"
    /\ pc[c] = "releasing"
    /\ pc' = [pc EXCEPT ![c] = "idle"]
    /\ leases' = [leases EXCEPT ![leaseID[c]] = None]
    /\ drainClosed' = (drainClosed \/ CloseDrainedLocked(revoked, leases'))
    /\ UNCHANGED <<actions, nextLeaseID, revoked, leaseID, handler,
                   cancelled, reset>>

ReleaseLocked(c) ==
    /\ pc[c] = "releasing"
    /\ pc' = [pc EXCEPT ![c] = "idle"]
    /\ leases' = [leases EXCEPT ![leaseID[c]] = None]
    /\ drainClosed' = (drainClosed \/ CloseDrainedLocked(revoked, leases'))
    /\ UNCHANGED <<actions, nextLeaseID, revoked, leaseID, handler,
                   cancelled, reset>>

(* Reset: revoke, then wait for the drain channel or the caller's context. *)
(* When both are ready the drain channel wins (the second select).         *)
ResetBegin(r) ==
    /\ reset[r] \in {"idle", "timeout"}
    /\ RevokeLocked
    /\ reset' = [reset EXCEPT ![r] = "waiting"]
    /\ UNCHANGED <<pc, leaseID, handler>>

(* Mutant: Reset does not wait. *)
ResetDrainedEarly(r) ==
    /\ reset[r] = "waiting"
    /\ reset' = [reset EXCEPT ![r] = "ok"]
    /\ UNCHANGED <<registry, callers>>

ResetDrained(r) ==
    /\ reset[r] = "waiting"
    /\ drainClosed
    /\ reset' = [reset EXCEPT ![r] = "ok"]
    /\ UNCHANGED <<registry, callers>>

ResetTimeout(r) ==
    /\ reset[r] = "waiting"
    /\ ~drainClosed
    /\ reset' = [reset EXCEPT ![r] = "timeout"]
    /\ UNCHANGED <<registry, callers>>

Next ==
    \/ \E a \in ActionIDs : BindPrepared(a)
    \/ Revoke
    \/ \E c \in Callers :
        \/ Derive(c)
        \/ AcquireRevoked(c)
        \/ \E a \in ActionIDs : Acquire(c, a)
        \/ AcquireLease(c)
        \/ ReleaseCancel(c)
        \/ ReleaseLocked(c)
    \/ \E r \in Resetters :
        \/ ResetBegin(r)
        \/ ResetDrained(r)
        \/ ResetTimeout(r)

(* A caller inside the runtime returns once its context is cancelled (the  *)
(* Handler contract of action.Handler), its deferred release runs to the   *)
(* end, and a Reset that can return does.  Nobody is obliged to revoke.    *)
Fairness ==
    /\ \A c \in Callers :
        /\ WF_vars(cancelled[c] /\ ReleaseCancel(c))
        /\ WF_vars(ReleaseLocked(c))
    /\ \A r \in Resetters : WF_vars(ResetDrained(r))

Spec == Init /\ [][Next]_vars
FairSpec == Spec /\ Fairness

-----------------------------------------------------------------------------
Inside == {c \in Callers : pc[c] \in {"held", "releasing"}}

(* Each caller inside the runtime owns the table entry its release closure *)
(* will remove, even after the identifier counter has wrapped around.      *)
LeaseOwned == \A c \in Inside : leases[leaseID[c]] = c

(* Once the registry is revoked, every call still inside the runtime runs  *)
(* under a cancelled context: no acquire slips past the revocation.        *)
RevocationReachesAll == revoked => \A c \in Inside : cancelled[c]

(* A Reset that reports success, and the Host cleanup that follows it,     *)
(* never overlaps a call that still holds a Handler.                       *)
ResetMeansQuiet ==
    (\E r \in Resetters : reset[r] = "ok") =>
        /\ Inside = {}
        /\ \A c \in Callers : handler[c] = None
        /\ actions = {}

(* The registry implements the lease contract. *)
Gate == INSTANCE LeaseGate WITH
            open <- ~revoked, active <- Inside, drained <- drainClosed

GateSpec == Gate!Spec

(* Revocation drains: with handlers that honour cancellation the channel   *)
(* Reset waits on is eventually closed.                                    *)
RevokedDrains == revoked ~> drainClosed
=============================================================================
