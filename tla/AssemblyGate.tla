---------------------------- MODULE AssemblyGate ----------------------------
(***************************************************************************)
(* module.assemblyGate and the facades in front of the component services. *)
(* A facade call derives a context that follows the gate's, takes a lease, *)
(* may take a second lease for the operation it reports to the             *)
(* observability component, works in the component, and gives the leases   *)
(* back: at its return, or when the rows it returned are finished.  The    *)
(* gate counts its leases; who holds them is known only to the calls.      *)
(* The steps of acquire are separate because derivation happens outside    *)
(* the gate's lock and the cancellation hook runs in a goroutine.          *)
(***************************************************************************)
EXTENDS Naturals, FiniteSets

CONSTANTS
    Methods,                \* calls that only hold their own lease
    Operations,             \* Exec, Scan, Enqueue, List: also an operation lease
    Transactions,           \* WithinTransaction: the same, around application code
    Queries,                \* QueryContext: the leases last as long as the rows
    Panicking               \* the transactions whose application code may panic

Calls == Methods \cup Operations \cup Transactions \cup Queries

ASSUME CallAssumption == IsFiniteSet(Calls) /\ Panicking \subseteq Transactions

VARIABLES
    open, active, drained,  \* the gate: admission, lease count, channel
    pc,                     \* where a call is
    hooked,                 \* the calls whose context follows the gate's
    cancelled,              \* the calls whose context is cancelled
    reporting               \* the calls whose operation lease is taken

gateVars == <<open, active, drained>>
vars == <<gateVars, pc, hooked, cancelled, reporting>>

Labels == {"idle", "derived", "admitted", "working", "rows", "finish", "release", "returned",
           "refused"}

TypeOK ==
    /\ open \in BOOLEAN /\ drained \in BOOLEAN
    /\ active \in 0..(2 * Cardinality(Calls))
    /\ pc \in [Calls -> Labels]
    /\ hooked \subseteq Calls /\ cancelled \subseteq Calls /\ reporting \subseteq Calls

Init ==
    /\ open = TRUE /\ active = 0 /\ drained = FALSE
    /\ pc = [c \in Calls |-> "idle"]
    /\ hooked = {} /\ cancelled = {} /\ reporting = {}

Goto(c, label) == pc' = [pc EXCEPT ![c] = label]

-----------------------------------------------------------------------------
(* acquire: the context first, so that a panic of the caller's Context     *)
(* implementation leaves no lease behind, then the critical section.       *)
Derive(c) ==
    /\ pc[c] = "idle"
    /\ Goto(c, "derived")
    /\ hooked' = hooked \cup {c}
    /\ UNCHANGED <<gateVars, cancelled, reporting>>

Admit(c) ==
    /\ pc[c] = "derived"
    /\ open
    /\ active' = active + 1
    /\ Goto(c, "admitted")
    /\ UNCHANGED <<open, drained, hooked, cancelled, reporting>>

Refuse(c) ==
    /\ pc[c] = "derived"
    /\ ~open
    /\ hooked' = hooked \ {c}
    /\ cancelled' = cancelled \cup {c}
    /\ Goto(c, "refused")
    /\ UNCHANGED <<gateVars, reporting>>

(* The cancellation hook of a call runs once the gate is revoked. *)
Follow(c) ==
    /\ c \in hooked
    /\ ~open
    /\ hooked' = hooked \ {c}
    /\ cancelled' = cancelled \cup {c}
    /\ UNCHANGED <<gateVars, pc, reporting>>

(* beginOperation: the observability facade passes the same gate; when it  *)
(* is revoked, or without the component, the operation is not reported.    *)
BeginOperation(c) ==
    /\ pc[c] = "admitted"
    /\ Goto(c, "working")
    /\ \/ /\ c \notin Methods /\ open
          /\ active' = active + 1
          /\ reporting' = reporting \cup {c}
       \/ UNCHANGED <<active, reporting>>
    /\ UNCHANGED <<open, drained, hooked, cancelled>>

(* The component returns.  A query that succeeds hands its leases to the   *)
(* rows; they are finished by the last Next or by Close, whichever is      *)
(* first.                                                                  *)
WorkReturns(c) ==
    /\ pc[c] = "working"
    /\ \/ Goto(c, "finish")
       \/ c \in Queries /\ Goto(c, "rows")
    /\ UNCHANGED <<gateVars, hooked, cancelled, reporting>>

(* Mutant: rows whose context is cancelled are not finished. *)
FinishRowsUncancelled(c) ==
    /\ pc[c] = "rows"
    /\ c \notin cancelled
    /\ Goto(c, "finish")
    /\ UNCHANGED <<gateVars, hooked, cancelled, reporting>>

FinishRows(c) ==
    /\ pc[c] = "rows"
    /\ Goto(c, "finish")
    /\ UNCHANGED <<gateVars, hooked, cancelled, reporting>>

(* The application code inside WithinTransaction panics: the database      *)
(* control rolls back and panics again, the deferred release runs, and the *)
(* statement that finishes the operation does not.                         *)
WorkPanics(c) ==
    /\ pc[c] = "working"
    /\ c \in Panicking
    /\ Goto(c, "release")
    /\ UNCHANGED <<gateVars, hooked, cancelled, reporting>>

(* assemblyGate.release. *)
(* Mutant: the count is tested before it is decreased. *)
GiveBackLate ==
    /\ active' = active - 1
    /\ drained' = (drained \/ (~open /\ active = 0))
    /\ UNCHANGED open

GiveBack ==
    /\ active' = active - 1
    /\ drained' = (drained \/ (~open /\ active' = 0))
    /\ UNCHANGED open

FinishOperation(c) ==
    /\ pc[c] = "finish"
    /\ Goto(c, "release")
    /\ IF c \in reporting THEN GiveBack ELSE UNCHANGED gateVars
    /\ reporting' = reporting \ {c}
    /\ UNCHANGED <<hooked, cancelled>>

(* The release closure: stop the hook, cancel the context, give the lease  *)
(* back.                                                                   *)
Release(c) ==
    /\ pc[c] = "release"
    /\ hooked' = hooked \ {c}
    /\ cancelled' = cancelled \cup {c}
    /\ GiveBack
    /\ Goto(c, "returned")
    /\ UNCHANGED reporting

(* Host.Shutdown revokes the gate, once. *)
Revoke ==
    /\ open
    /\ open' = FALSE
    /\ drained' = (active = 0)
    /\ UNCHANGED <<active, pc, hooked, cancelled, reporting>>

Call(c) ==
    \/ Derive(c) \/ Admit(c) \/ Refuse(c) \/ BeginOperation(c) \/ WorkReturns(c) \/ FinishRows(c)
    \/ WorkPanics(c) \/ FinishOperation(c) \/ Release(c)

Next == Revoke \/ \E c \in Calls : Call(c) \/ Follow(c)

Spec == Init /\ [][Next]_vars

(* The goroutine of a call and its hook keep running, the components       *)
(* return, and rows are closed, but only once the context is cancelled: a  *)
(* call of an open gate may last for ever.                                 *)
FairSpec ==
    /\ Spec
    /\ \A c \in Calls :
          /\ WF_vars(Follow(c))
          /\ WF_vars(pc[c] \notin {"idle", "working", "rows"} /\ Call(c))
          /\ WF_vars(c \in cancelled /\ pc[c] \in {"working", "rows"} /\ Call(c))

-----------------------------------------------------------------------------
Inside(c) == pc[c] \in {"admitted", "working", "rows", "finish", "release"}

(* The leases, as only their holders know them. *)
Leases == {<<c, "call">> : c \in {d \in Calls : Inside(d)}} \cup {<<c, "operation">> : c \in reporting}

Gate == INSTANCE LeaseGate WITH Callers <- Calls \X {"call", "operation"}, active <- Leases

(* "closes drained only after every facade method has returned"            *)
(* (assemblyGate): the counter and the channel implement the lease         *)
(* contract, the gate being drained exactly when it is revoked and no      *)
(* call, no rows and no operation hold a lease (acquire, release, revoke). *)
GateSpec == Gate!Spec

(* "The sequence revokes and drains every assembled facade before Module   *)
(* cleanup" (Host.Shutdown).  One thing only keeps a revoked gate from     *)
(* draining: an operation lease left behind by a call that has returned    *)
(* (WithinTransaction after a panic of the application code).              *)
DrainsUnlessAbandoned ==
    ~open ~> (drained \/ \E c \in reporting : pc[c] = "returned")
=============================================================================
