------------------------- MODULE AssemblyGateProofs -------------------------
(***************************************************************************)
(* The assembly gate implements LeaseGate for any number of facade calls.  *)
(* The gate knows only a number; the argument is that the number is always *)
(* that of the leases their holders will give back, the one an unwinding   *)
(* transaction abandons included.                                          *)
(***************************************************************************)
EXTENDS AssemblyGate, FiniteSetTheorems, TLAPS

(* assemblyGate.active counts the leases. *)
CountExact == active \in Nat /\ active = Cardinality(Leases)

(* The channel is closed when the gate is revoked and the count is zero. *)
DrainExact == drained = (~open /\ active = 0)

(* No operation is reported before the call has its own lease. *)
ReportingBegun == \A c \in reporting : pc[c] \notin {"idle", "derived", "admitted", "refused"}

CallTypes ==
    /\ open \in BOOLEAN /\ drained \in BOOLEAN
    /\ pc \in [Calls -> Labels] /\ reporting \subseteq Calls

IInv == CallTypes /\ CountExact /\ DrainExact /\ ReportingBegun

-----------------------------------------------------------------------------
LEMMA LeasesFinite == CallTypes => IsFiniteSet(Leases)
<1> SUFFICES ASSUME CallTypes PROVE IsFiniteSet(Leases)
  OBVIOUS
<1>1. Leases \subseteq Calls \X {"call", "operation"}
  BY DEF CallTypes, Leases
<1>2. IsFiniteSet({"call", "operation"})
  <2>1. IsFiniteSet({"call"}) /\ IsFiniteSet({"operation"})
    BY FS_Singleton
  <2>2. {"call", "operation"} = {"call"} \cup {"operation"}
    OBVIOUS
  <2> QED BY <2>1, <2>2, FS_Union
<1> QED BY <1>1, <1>2, CallAssumption, FS_Product, FS_Subset

LEMMA InitIInv == Init => IInv
<1> SUFFICES ASSUME Init PROVE IInv
  OBVIOUS
<1>1. Leases = {}
  BY DEF Init, Leases, Inside
<1> QED BY <1>1, FS_EmptySet DEF Init, IInv, CallTypes, CountExact, DrainExact, ReportingBegun, Labels

(* A lease is granted: the count and the set of leases grow together. *)
LEMMA GrantKeeps ==
    ASSUME IInv, CallTypes', open, NEW x, x \notin Leases, x \in Calls \X {"call", "operation"},
           Leases' = Leases \cup {x}, active' = active + 1, UNCHANGED <<open, drained>>
    PROVE  CountExact' /\ DrainExact' /\ Gate!Next
<1>1. Cardinality(Leases') = Cardinality(Leases) + 1
  BY LeasesFinite, FS_AddElement DEF IInv
<1>2. CountExact'
  BY <1>1 DEF IInv, CountExact
<1>3. DrainExact'
  BY <1>2 DEF IInv, CallTypes, DrainExact
<1>4. Gate!Acquire(x)
  BY DEF Gate!Acquire
<1> QED BY <1>2, <1>3, <1>4 DEF Gate!Next

(* A lease is given back. *)
LEMMA GiveBackKeeps ==
    ASSUME IInv, CallTypes', GiveBack, NEW x, x \in Leases, x \in Calls \X {"call", "operation"},
           Leases' = Leases \ {x}
    PROVE  CountExact' /\ DrainExact' /\ Gate!Next
<1>1. /\ Cardinality(Leases') = Cardinality(Leases) - 1
      /\ Cardinality(Leases') \in Nat /\ Cardinality(Leases) \in Nat
      /\ Cardinality(Leases') = 0 <=> Leases' = {}
  BY LeasesFinite, FS_RemoveElement, FS_CardinalityType, FS_EmptySet, FS_Subset DEF IInv
<1>2. CountExact' /\ active # 0
  BY <1>1 DEF IInv, CountExact, GiveBack
<1>3. drained' = (~open /\ active' = 0)
  BY <1>2 DEF IInv, DrainExact, GiveBack
<1>4. DrainExact'
  BY <1>3 DEF DrainExact, GiveBack
<1>5. Gate!Release(x)
  BY <1>1, <1>2, <1>3 DEF Gate!Release, CountExact, GiveBack
<1> QED BY <1>2, <1>4, <1>5 DEF Gate!Next

(* Steps that move no lease. *)
LEMMA QuietKeeps ==
    ASSUME IInv, Leases' = Leases, UNCHANGED gateVars
    PROVE  CountExact' /\ DrainExact' /\ UNCHANGED Gate!vars
BY DEF IInv, CountExact, DrainExact, gateVars, Gate!vars

LEMMA AdmitKeeps ==
    ASSUME IInv, NEW c \in Calls, Admit(c) PROVE IInv' /\ Gate!Next
<1>1. CallTypes' /\ ReportingBegun'
  BY DEF Admit, Goto, IInv, CallTypes, ReportingBegun, Labels
<1>2. <<c, "call">> \notin Leases /\ Leases' = Leases \cup {<<c, "call">>}
  BY DEF Admit, Goto, IInv, CallTypes, Leases, Inside
<1>3. open /\ active' = active + 1 /\ UNCHANGED <<open, drained>>
  BY DEF Admit
<1> QED BY <1>1, <1>2, <1>3, GrantKeeps DEF IInv

LEMMA BeginOperationKeeps ==
    ASSUME IInv, NEW c \in Calls, BeginOperation(c) PROVE IInv' /\ [Gate!Next]_(Gate!vars)
<1>1. CASE active' = active + 1 /\ open /\ reporting' = reporting \cup {c}
  <2>1. CallTypes' /\ ReportingBegun'
    BY <1>1 DEF BeginOperation, Goto, IInv, CallTypes, ReportingBegun, Labels
  <2>2. <<c, "operation">> \notin Leases /\ Leases' = Leases \cup {<<c, "operation">>}
    BY <1>1 DEF BeginOperation, Goto, IInv, CallTypes, ReportingBegun, Leases, Inside
  <2>3. UNCHANGED <<open, drained>>
    BY DEF BeginOperation
  <2> QED BY <1>1, <2>1, <2>2, <2>3, GrantKeeps DEF IInv
<1>2. CASE UNCHANGED <<active, reporting>>
  <2>1. CallTypes' /\ ReportingBegun'
    BY <1>2 DEF BeginOperation, Goto, IInv, CallTypes, ReportingBegun, Labels
  <2>2. Leases' = Leases /\ UNCHANGED gateVars
    BY <1>2 DEF BeginOperation, Goto, IInv, CallTypes, Leases, Inside, gateVars
  <2> QED BY <2>1, <2>2, QuietKeeps DEF IInv
<1> QED BY <1>1, <1>2 DEF BeginOperation

LEMMA FinishOperationKeeps ==
    ASSUME IInv, NEW c \in Calls, FinishOperation(c) PROVE IInv' /\ [Gate!Next]_(Gate!vars)
<1>1. CallTypes' /\ ReportingBegun'
  BY DEF FinishOperation, GiveBack, gateVars, Goto, IInv, CallTypes, ReportingBegun, Labels
<1>2. CASE c \in reporting
  <2>1. <<c, "operation">> \in Leases /\ Leases' = Leases \ {<<c, "operation">>}
    BY <1>2 DEF FinishOperation, Goto, IInv, CallTypes, Leases, Inside
  <2> QED BY <1>1, <1>2, <2>1, GiveBackKeeps DEF FinishOperation, IInv
<1>3. CASE c \notin reporting
  <2>1. Leases' = Leases /\ UNCHANGED gateVars
    BY <1>3 DEF FinishOperation, Goto, IInv, CallTypes, Leases, Inside
  <2> QED BY <1>1, <2>1, QuietKeeps DEF IInv
<1> QED BY <1>2, <1>3

LEMMA ReleaseKeeps ==
    ASSUME IInv, NEW c \in Calls, Release(c) PROVE IInv' /\ Gate!Next
<1>1. CallTypes' /\ ReportingBegun' /\ GiveBack
  BY DEF Release, GiveBack, Goto, IInv, CallTypes, ReportingBegun, Labels
<1>2. <<c, "call">> \in Leases /\ Leases' = Leases \ {<<c, "call">>}
  BY DEF Release, Goto, IInv, CallTypes, Leases, Inside
<1> QED BY <1>1, <1>2, GiveBackKeeps DEF IInv

LEMMA RevokeKeeps == ASSUME IInv, Revoke PROVE IInv' /\ Gate!Next
<1>1. Leases' = Leases
  BY DEF Revoke, Leases, Inside
<1>2. active = 0 <=> Leases = {}
  BY LeasesFinite, FS_EmptySet DEF IInv, CountExact
<1>3. Gate!Close
  BY <1>1, <1>2 DEF Revoke, Gate!Close
<1>4. IInv'
  BY <1>1 DEF Revoke, IInv, CallTypes, CountExact, DrainExact, ReportingBegun
<1> QED BY <1>3, <1>4 DEF Gate!Next

(* Every other step of a call leaves its leases where they are. *)
LEMMA OtherKeeps ==
    ASSUME IInv, NEW c \in Calls,
           Derive(c) \/ Refuse(c) \/ Follow(c) \/ WorkReturns(c) \/ FinishRows(c) \/ WorkPanics(c)
    PROVE  IInv' /\ UNCHANGED Gate!vars
<1>1. UNCHANGED <<gateVars, reporting>>
  BY DEF Derive, Refuse, Follow, WorkReturns, FinishRows, WorkPanics
<1>2. PICK l \in Labels : pc' = [pc EXCEPT ![c] = l]
                          /\ (Inside(c) <=> l \in {"admitted", "working", "rows", "finish", "release"})
                          /\ (c \in reporting => l \notin {"idle", "derived", "admitted", "refused"})
  <2>1. CASE Derive(c) \/ Refuse(c) \/ WorkReturns(c) \/ FinishRows(c) \/ WorkPanics(c)
    BY <2>1 DEF Derive, Refuse, WorkReturns, FinishRows, WorkPanics, Goto, Labels, Inside, IInv, ReportingBegun
  <2>2. CASE Follow(c)
    BY <2>2 DEF Follow, Inside, IInv, ReportingBegun, CallTypes
  <2> QED BY <2>1, <2>2
<1>3. CallTypes' /\ ReportingBegun'
  BY <1>1, <1>2 DEF IInv, CallTypes, ReportingBegun, gateVars
<1>4. Leases' = Leases
  BY <1>1, <1>2 DEF IInv, CallTypes, Leases, Inside
<1> QED BY <1>1, <1>3, <1>4, QuietKeeps DEF IInv

LEMMA StepSimulation == IInv /\ [Next]_vars => IInv' /\ [Gate!Next]_(Gate!vars)
<1> SUFFICES ASSUME IInv, [Next]_vars PROVE IInv' /\ [Gate!Next]_(Gate!vars)
  OBVIOUS
<1>1. CASE Revoke
  BY <1>1, RevokeKeeps
<1>2. ASSUME NEW c \in Calls, Call(c) \/ Follow(c) PROVE IInv' /\ [Gate!Next]_(Gate!vars)
  BY <1>2, AdmitKeeps, BeginOperationKeeps, FinishOperationKeeps, ReleaseKeeps, OtherKeeps DEF Call
<1>3. CASE UNCHANGED vars
  BY <1>3 DEF vars, gateVars, IInv, CallTypes, CountExact, DrainExact, ReportingBegun, Leases, Inside,
     Gate!vars
<1> QED BY <1>1, <1>2, <1>3 DEF Next

(* "closes drained only after every facade method has returned"            *)
(* (assemblyGate): with its counter the gate implements the lease contract *)
(* for any number and any mixture of methods, operations, transactions and *)
(* queries, panics of the application code included.                       *)
THEOREM ImplementsGate == Spec => GateSpec
<1>1. Init => Gate!Init
  BY DEF Init, Gate!Init, Leases, Inside
<1> QED BY <1>1, InitIInv, StepSimulation, PTL DEF Spec, GateSpec, Gate!Spec
=============================================================================
