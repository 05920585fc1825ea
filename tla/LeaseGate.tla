----------------------------- MODULE LeaseGate -----------------------------
(***************************************************************************)
(* What every admission boundary of Modary promises: callers hold leases   *)
(* while the gate is open, closing it is final, and the gate signals       *)
(* "drained" exactly when it is closed and the last lease is gone.  The    *)
(* Action registry, the assembly gate in front of the component facades    *)
(* and the process manager in front of the HTTP handlers are three         *)
(* implementations of this one contract.                                   *)
(***************************************************************************)
CONSTANT Callers            \* the calls that may pass the gate

VARIABLES
    open,                   \* new leases are granted
    active,                 \* the callers that hold a lease
    drained                 \* the channel the owner waits on is closed

vars == <<open, active, drained>>

TypeOK ==
    /\ open \in BOOLEAN
    /\ active \subseteq Callers
    /\ drained \in BOOLEAN

Init ==
    /\ open = TRUE
    /\ active = {}
    /\ drained = FALSE

Acquire(c) ==
    /\ open
    /\ c \notin active
    /\ active' = active \cup {c}
    /\ UNCHANGED <<open, drained>>

Release(c) ==
    /\ c \in active
    /\ active' = active \ {c}
    /\ drained' = (~open /\ active' = {})
    /\ UNCHANGED open

Close ==
    /\ open
    /\ open' = FALSE
    /\ drained' = (active = {})
    /\ UNCHANGED active

Next == Close \/ \E c \in Callers : Acquire(c) \/ Release(c)

Spec == Init /\ [][Next]_vars

-----------------------------------------------------------------------------
(* The owner of the resources behind the gate may release them as soon as  *)
(* it sees the signal: the signal is up exactly when nobody is inside and  *)
(* nobody can come in.                                                     *)
DrainExact == drained <=> (~open /\ active = {})

(* Closing is final and a lease is never granted afterwards: once closed,  *)
(* the set of holders only shrinks, and a raised signal stays raised.      *)
ClosedIsFinal ==
    [][~open => /\ ~open'
                /\ active' \subseteq active
                /\ (drained => drained')]_vars
=============================================================================
