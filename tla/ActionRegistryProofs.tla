------------------------ MODULE ActionRegistryProofs ------------------------
(***************************************************************************)
(* The safety of the Action registry for any number of callers, Resets,    *)
(* Actions and lease identifiers, and that it implements LeaseGate.        *)
(***************************************************************************)
EXTENDS ActionRegistry, TLAPS

(* The table and the callers agree: an entry belongs to a caller inside    *)
(* the runtime whose release closure will remove exactly that entry.       *)
TableExact ==
    \A i \in LeaseIDs : \A c \in Callers : leases[i] = c => c \in Inside /\ leaseID[c] = i

(* closeDrainedLocked is called wherever its condition may become true. *)
DrainTracksTable == drainClosed <=> (revoked /\ NoLeases(leases))

HandlerHeld == \A c \in Callers : handler[c] # None => pc[c] = "held"
RevokedUnbound == revoked => actions = {}
ResetOnceDrained == \A r \in Resetters : reset[r] = "ok" => drainClosed

(* The inductive invariant. *)
IInv ==
    /\ TypeOK
    /\ LeaseOwned
    /\ TableExact
    /\ RevocationReachesAll
    /\ DrainTracksTable
    /\ HandlerHeld
    /\ RevokedUnbound
    /\ ResetOnceDrained

USE IDSpaceAssumption, NoneAssumption

(* Every candidate of registerLeaseLocked is an identifier: the counter    *)
(* wraps around.                                                           *)
LEMMA LeaseAtType ==
    ASSUME nextLeaseID \in LeaseIDs, NEW k \in 1 .. IDSpace
    PROVE  LeaseAt(k) \in LeaseIDs
  <1>1. nextLeaseID + k \in Nat /\ IDSpace \in Nat /\ IDSpace > 0
    BY DEF LeaseIDs
  <1>2. (nextLeaseID + k) % IDSpace \in 0 .. IDSpace - 1
    BY <1>1
  <1> QED BY <1>2 DEF LeaseAt, LeaseIDs

(* What a granted lease changes: one identifier no lease uses becomes the  *)
(* caller's.                                                               *)
LEMMA RegisterLease ==
    ASSUME TypeOK, NEW c \in Callers, RegisterLeaseLocked(c)
    PROVE  \E i \in LeaseIDs : /\ leases[i] = None
                               /\ nextLeaseID' = i
                               /\ leases' = [leases EXCEPT ![i] = c]
                               /\ leaseID' = [leaseID EXCEPT ![c] = i]
  <1>1. PICK k \in 1 .. IDSpace : /\ leases[LeaseAt(k)] = None
                                  /\ nextLeaseID' = LeaseAt(k)
                                  /\ leases' = [leases EXCEPT ![LeaseAt(k)] = c]
                                  /\ leaseID' = [leaseID EXCEPT ![c] = LeaseAt(k)]
    BY DEF RegisterLeaseLocked
  <1>2. LeaseAt(k) \in LeaseIDs
    BY LeaseAtType DEF TypeOK
  <1> QED BY <1>1, <1>2

(* The registry starts in the invariant. *)
LEMMA InitIInv == Init => IInv
  <1> SUFFICES ASSUME Init PROVE IInv
    OBVIOUS
  <1>1. 0 \in LeaseIDs
    BY DEF LeaseIDs
  <1>2. TypeOK
    BY <1>1 DEF Init, TypeOK
  <1> QED BY <1>2 DEF Init, IInv, LeaseOwned, TableExact, RevocationReachesAll, DrainTracksTable,
                      HandlerHeld, RevokedUnbound, ResetOnceDrained, Inside

(* Granting a lease, by acquire or by acquireLease, keeps the invariant. *)
LEMMA GrantKeeps ==
    ASSUME IInv, NEW c \in Callers, pc[c] = "derived", ~revoked, RegisterLeaseLocked(c),
           pc' = [pc EXCEPT ![c] = "held"],
           UNCHANGED <<actions, revoked, drainClosed, cancelled, reset>>,
           handler' \in [Callers -> ActionIDs \cup {None}],
           \A d \in Callers \ {c} : handler'[d] = handler[d]
    PROVE  IInv'
  <1>1. PICK i \in LeaseIDs : /\ leases[i] = None
                              /\ nextLeaseID' = i
                              /\ leases' = [leases EXCEPT ![i] = c]
                              /\ leaseID' = [leaseID EXCEPT ![c] = i]
    BY RegisterLease DEF IInv
  <1>2. TypeOK'
    BY <1>1 DEF IInv, TypeOK
  <1>3. Inside' = Inside \cup {c}
    BY DEF IInv, TypeOK, Inside
  <1>4. c \notin Inside
    BY DEF Inside
  <1>5. LeaseOwned'
    BY <1>1, <1>3, <1>4 DEF IInv, TypeOK, LeaseOwned, TableExact, Inside
  <1>6. TableExact'
    BY <1>1, <1>3, <1>4 DEF IInv, TypeOK, TableExact, LeaseOwned
  <1>7. RevocationReachesAll' /\ DrainTracksTable' /\ HandlerHeld' /\ RevokedUnbound' /\ ResetOnceDrained'
    BY DEF IInv, TypeOK, RevocationReachesAll, DrainTracksTable, HandlerHeld, RevokedUnbound, ResetOnceDrained
  <1> QED BY <1>2, <1>5, <1>6, <1>7 DEF IInv

(* Revocation, by Revoke or by Reset, keeps what the table says and        *)
(* cancels whoever is inside.                                              *)
LEMMA RevokeKeeps ==
    ASSUME IInv, RevokeLocked, UNCHANGED <<pc, leaseID, handler>>
    PROVE  /\ LeaseOwned' /\ TableExact' /\ RevocationReachesAll' /\ DrainTracksTable'
           /\ HandlerHeld' /\ RevokedUnbound'
           /\ drainClosed => drainClosed'
           /\ actions' \subseteq ActionIDs /\ revoked' \in BOOLEAN /\ drainClosed' \in BOOLEAN
           /\ cancelled' \in [Callers -> BOOLEAN] /\ leases' = leases /\ nextLeaseID' = nextLeaseID
  <1>1. CASE revoked
    BY <1>1 DEF IInv, TypeOK, RevokeLocked, registry, LeaseOwned, TableExact, RevocationReachesAll,
                DrainTracksTable, HandlerHeld, RevokedUnbound, Inside, NoLeases
  <1>2. CASE ~revoked
    <2>1. \A c \in Inside : \E i \in LeaseIDs : leases[i] = c
      BY DEF IInv, TypeOK, LeaseOwned, Inside
    <2>2. /\ revoked' = TRUE /\ actions' = {} /\ leases' = leases /\ nextLeaseID' = nextLeaseID
          /\ drainClosed' = (drainClosed \/ CloseDrainedLocked(TRUE, leases))
          /\ cancelled' = [c \in Callers |-> cancelled[c] \/ \E i \in LeaseIDs : leases[i] = c]
      BY <1>2 DEF RevokeLocked
    <2>3. RevocationReachesAll'
      BY <2>1, <2>2 DEF RevocationReachesAll, Inside
    <2>4. DrainTracksTable' /\ (drainClosed => drainClosed') /\ drainClosed' \in BOOLEAN
      BY <1>2, <2>2 DEF IInv, DrainTracksTable, CloseDrainedLocked, NoLeases
    <2>5. cancelled' \in [Callers -> BOOLEAN]
      BY <2>2
    <2>6. LeaseOwned' /\ TableExact' /\ HandlerHeld' /\ RevokedUnbound'
      BY <2>2 DEF IInv, LeaseOwned, TableExact, HandlerHeld, RevokedUnbound, Inside
    <2> QED BY <2>2, <2>3, <2>4, <2>5, <2>6
  <1> QED BY <1>1, <1>2

(* Every step keeps the invariant. *)
LEMMA NextIInv == IInv /\ [Next]_vars => IInv'
  <1> SUFFICES ASSUME IInv, [Next]_vars PROVE IInv'
    OBVIOUS
  <1>1. ASSUME NEW a \in ActionIDs, BindPrepared(a) PROVE IInv'
    BY <1>1 DEF BindPrepared, callers, IInv, TypeOK, LeaseOwned, TableExact, RevocationReachesAll,
                DrainTracksTable, HandlerHeld, RevokedUnbound, ResetOnceDrained, Inside, NoLeases
  <1>2. CASE Revoke
    <2>1. RevokeLocked /\ UNCHANGED <<pc, leaseID, handler, reset>>
      BY <1>2 DEF Revoke
    <2>2. ResetOnceDrained'
      BY <2>1, RevokeKeeps DEF IInv, ResetOnceDrained
    <2>3. TypeOK'
      BY <2>1, RevokeKeeps DEF IInv, TypeOK
    <2> QED BY <2>1, <2>2, <2>3, RevokeKeeps DEF IInv
  <1>3. ASSUME NEW c \in Callers, Derive(c) PROVE IInv'
    <2>1. c \notin Inside /\ Inside' = Inside
      BY <1>3 DEF Derive, IInv, TypeOK, Inside
    <2> QED BY <1>3, <2>1 DEF Derive, registry, IInv, TypeOK, LeaseOwned, TableExact,
                RevocationReachesAll, DrainTracksTable, HandlerHeld, RevokedUnbound, ResetOnceDrained, NoLeases
  <1>4. ASSUME NEW c \in Callers, AcquireRevoked(c) PROVE IInv'
    <2>1. c \notin Inside /\ Inside' = Inside
      BY <1>4 DEF AcquireRevoked, IInv, TypeOK, Inside
    <2> QED BY <1>4, <2>1 DEF AcquireRevoked, registry, IInv, TypeOK, LeaseOwned, TableExact,
                RevocationReachesAll, DrainTracksTable, HandlerHeld, RevokedUnbound, ResetOnceDrained, NoLeases
  <1>5. ASSUME NEW c \in Callers, NEW a \in ActionIDs, Acquire(c, a) PROVE IInv'
    BY <1>5, GrantKeeps DEF Acquire, IInv, TypeOK
  <1>6. ASSUME NEW c \in Callers, AcquireLease(c) PROVE IInv'
    BY <1>6, GrantKeeps DEF AcquireLease, IInv, TypeOK
  <1>7. ASSUME NEW c \in Callers, ReleaseCancel(c) PROVE IInv'
    <2>1. Inside' = Inside
      BY <1>7 DEF ReleaseCancel, IInv, TypeOK, Inside
    <2> QED BY <1>7, <2>1 DEF ReleaseCancel, registry, IInv, TypeOK, LeaseOwned, TableExact,
                RevocationReachesAll, DrainTracksTable, HandlerHeld, RevokedUnbound, ResetOnceDrained, NoLeases
  <1>8. ASSUME NEW c \in Callers, ReleaseLocked(c) PROVE IInv'
    <2>1. Inside' = Inside \ {c} /\ c \in Inside
      BY <1>8 DEF ReleaseLocked, IInv, TypeOK, Inside
    <2>2. leases[leaseID[c]] = c /\ leaseID[c] \in LeaseIDs
      BY <1>8, <2>1 DEF IInv, TypeOK, LeaseOwned
    <2>3. TypeOK'
      BY <1>8 DEF ReleaseLocked, IInv, TypeOK
    <2>4. DrainTracksTable' /\ ResetOnceDrained'
      BY <1>8, <2>2 DEF ReleaseLocked, IInv, TypeOK, DrainTracksTable, ResetOnceDrained, CloseDrainedLocked, NoLeases
    <2> QED BY <1>8, <2>1, <2>2, <2>3, <2>4 DEF ReleaseLocked, IInv, TypeOK, LeaseOwned, TableExact,
                RevocationReachesAll, HandlerHeld, RevokedUnbound
  <1>9. ASSUME NEW r \in Resetters, ResetBegin(r) PROVE IInv'
    <2>1. RevokeLocked /\ UNCHANGED <<pc, leaseID, handler>> /\ reset' = [reset EXCEPT ![r] = "waiting"]
      BY <1>9 DEF ResetBegin
    <2>2. ResetOnceDrained'
      BY <2>1, RevokeKeeps DEF IInv, TypeOK, ResetOnceDrained
    <2>3. TypeOK'
      BY <2>1, RevokeKeeps DEF IInv, TypeOK
    <2> QED BY <2>1, <2>2, <2>3, RevokeKeeps DEF IInv
  <1>10. ASSUME NEW r \in Resetters, ResetDrained(r) \/ ResetTimeout(r) PROVE IInv'
    BY <1>10 DEF ResetDrained, ResetTimeout, registry, callers, IInv, TypeOK, LeaseOwned, TableExact,
                 RevocationReachesAll, DrainTracksTable, HandlerHeld, RevokedUnbound, ResetOnceDrained, Inside, NoLeases
  <1>11. CASE UNCHANGED vars
    BY <1>11 DEF vars, registry, callers, IInv, TypeOK, LeaseOwned, TableExact, RevocationReachesAll,
                 DrainTracksTable, HandlerHeld, RevokedUnbound, ResetOnceDrained, Inside, NoLeases
  <1> QED BY <1>1, <1>2, <1>3, <1>4, <1>5, <1>6, <1>7, <1>8, <1>9, <1>10, <1>11 DEF Next

(* The table is empty exactly when nobody is inside the runtime. *)
LEMMA EmptyTable == IInv => (NoLeases(leases) <=> Inside = {})
  BY DEF IInv, TypeOK, LeaseOwned, TableExact, NoLeases, Inside

LEMMA Invariance == Spec => []IInv
  BY InitIInv, NextIInv, PTL DEF Spec

(* Type correctness of the Registry fields, for every counter width. *)
THEOREM TypeCorrect == Spec => []TypeOK
  BY Invariance, PTL DEF IInv

(* A release removes its own lease and no other, however often the         *)
(* identifier counter of registerLeaseLocked has wrapped around.           *)
THEOREM LeasesOwned == Spec => []LeaseOwned
  BY Invariance, PTL DEF IInv

(* No call runs inside a revoked registry with a context that Revoke has   *)
(* not cancelled.                                                          *)
THEOREM RevocationComplete == Spec => []RevocationReachesAll
  BY Invariance, PTL DEF IInv

(* When Reset reports success nobody is inside the runtime, nobody holds a *)
(* Handler and no Action is bound.                                         *)
THEOREM ResetQuiet == Spec => []ResetMeansQuiet
  <1>1. IInv => ResetMeansQuiet
    <2> SUFFICES ASSUME IInv, NEW r \in Resetters, reset[r] = "ok" PROVE ResetMeansQuiet
      BY DEF ResetMeansQuiet
    <2>1. revoked /\ NoLeases(leases)
      BY DEF IInv, ResetOnceDrained, DrainTracksTable
    <2>2. Inside = {} /\ actions = {}
      BY <2>1, EmptyTable DEF IInv, RevokedUnbound
    <2>3. \A c \in Callers : handler[c] = None
      BY <2>2 DEF IInv, HandlerHeld, Inside
    <2> QED BY <2>2, <2>3 DEF ResetMeansQuiet
  <1> QED BY <1>1, Invariance, PTL

(* Every critical section of the registry is a step of the lease contract  *)
(* or leaves it alone.                                                     *)
LEMMA StepSimulation == IInv /\ IInv' /\ [Next]_vars => [Gate!Next]_(Gate!vars)
  <1> SUFFICES ASSUME IInv, IInv', [Next]_vars PROVE [Gate!Next]_(Gate!vars)
    OBVIOUS
  <1> USE DEF Gate!vars
  <1>0. /\ drainClosed = (revoked /\ Inside = {})
        /\ drainClosed' = (revoked' /\ Inside' = {})
    <2>1. NoLeases(leases) <=> Inside = {}
      BY EmptyTable
    <2>2. (NoLeases(leases) <=> Inside = {})'
      BY DEF IInv, TypeOK, LeaseOwned, TableExact, NoLeases, Inside
    <2> QED BY <2>1, <2>2 DEF IInv, TypeOK, DrainTracksTable
  <1>1. ASSUME NEW a \in ActionIDs, BindPrepared(a) PROVE UNCHANGED Gate!vars
    BY <1>1 DEF BindPrepared, callers, Inside
  <1>2. ASSUME RevokeLocked, UNCHANGED pc PROVE [Gate!Next]_(Gate!vars)
    <2>1. Inside' = Inside
      BY <1>2 DEF Inside
    <2>2. CASE revoked
      BY <1>2, <2>1, <2>2 DEF RevokeLocked, registry
    <2>3. CASE ~revoked
      <3>1. revoked' = TRUE
        BY <1>2, <2>3 DEF RevokeLocked
      <3>2. Gate!Close
        BY <1>0, <2>1, <2>3, <3>1 DEF Gate!Close
      <3> QED BY <3>2 DEF Gate!Next
    <2> QED BY <2>2, <2>3
  <1>3. ASSUME NEW c \in Callers, Derive(c) \/ AcquireRevoked(c) \/ ReleaseCancel(c) PROVE UNCHANGED Gate!vars
    BY <1>3 DEF Derive, AcquireRevoked, ReleaseCancel, registry, Inside, IInv, TypeOK
  <1>4. ASSUME NEW c \in Callers, AcquireLease(c) \/ \E a \in ActionIDs : Acquire(c, a) PROVE Gate!Next
    <2>1. pc[c] = "derived" /\ ~revoked /\ pc' = [pc EXCEPT ![c] = "held"] /\ UNCHANGED <<revoked, drainClosed>>
      BY <1>4 DEF AcquireLease, Acquire
    <2>2. c \notin Inside /\ Inside' = Inside \cup {c}
      BY <2>1 DEF Inside, IInv, TypeOK
    <2>3. Gate!Acquire(c)
      BY <2>1, <2>2 DEF Gate!Acquire
    <2> QED BY <2>3 DEF Gate!Next
  <1>5. ASSUME NEW c \in Callers, ReleaseLocked(c) PROVE Gate!Next
    <2>1. c \in Inside /\ Inside' = Inside \ {c} /\ revoked' = revoked
      BY <1>5 DEF ReleaseLocked, Inside, IInv, TypeOK
    <2>2. Gate!Release(c)
      BY <1>0, <2>1 DEF Gate!Release
    <2> QED BY <2>2 DEF Gate!Next
  <1>6. ASSUME NEW r \in Resetters, ResetDrained(r) \/ ResetTimeout(r) PROVE UNCHANGED Gate!vars
    BY <1>6 DEF ResetDrained, ResetTimeout, registry, callers, Inside
  <1>7. CASE UNCHANGED vars
    BY <1>7 DEF vars, registry, callers, Inside
  <1> QED BY <1>1, <1>2, <1>3, <1>4, <1>5, <1>6, <1>7 DEF Next, Revoke, ResetBegin

(* The registry implements LeaseGate: closing is final, and the channel    *)
(* Reset waits on is closed exactly when the last lease is gone.           *)
THEOREM ImplementsGate == Spec => GateSpec
  <1>1. Init => Gate!Init
    BY DEF Init, Gate!Init, Inside
  <1> QED BY <1>1, Invariance, StepSimulation, PTL DEF Spec, GateSpec, Gate!Spec
=============================================================================
