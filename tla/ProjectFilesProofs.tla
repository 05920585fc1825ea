------------------------- MODULE ProjectFilesProofs -------------------------
(***************************************************************************)
(* Calls on one project root take turns, for any number of calls.  The     *)
(* argument: every call that has looked a gate up refers to the one in the *)
(* table, because the count of a gate is exactly the number of calls that  *)
(* refer to it and only the last of them takes it out; so two calls that   *)
(* hold the root hold one semaphore.                                       *)
(***************************************************************************)
EXTENDS ProjectFiles, FiniteSetTheorems, TLAPS

Labels == {"idle", "done", "dead"} \cup Waiting \cup Holding
Users(g) == {o \in Ops : gate[o] = g}

(* The part of TypeOK that acquireProjectRoot and its release work on. *)
GateType ==
    /\ entry \in Ops \cup {None} /\ gate \in [Ops -> Ops \cup {None}]
    /\ refs \in [Ops -> Nat] /\ holder \in [Ops -> Ops \cup {None}]
    /\ pc \in [Ops -> Labels]

(* The references of a gate are the calls that use it. *)
RefsCount == \A g \in Ops : refs[g] = Cardinality(Users(g))

(* A call under way uses a gate, and it is the one in the table. *)
OneGate ==
    \A o \in Ops :
        /\ pc[o] \in Waiting \cup Holding <=> gate[o] # None
        /\ gate[o] # None => gate[o] = entry

(* A call that holds the root is in its gate's semaphore. *)
HolderHeld == \A o \in Ops : pc[o] \in Holding => holder[gate[o]] = o

IInv == GateType /\ RefsCount /\ OneGate /\ HolderHeld

-----------------------------------------------------------------------------
LEMMA UsersFinite == \A g : IsFiniteSet(Users(g))
BY ProjectAssumption, FS_Subset DEF Users

LEMMA InitIInv == Init => IInv
<1> SUFFICES ASSUME Init PROVE IInv
  OBVIOUS
<1>1. GateType
  BY DEF Init, GateType, Labels
<1>2. RefsCount
  <2>1. \A g \in Ops : Users(g) = {}
    BY ProjectAssumption DEF Init, Users
  <2> QED BY <2>1, FS_EmptySet DEF Init, RefsCount
<1>3. OneGate /\ HolderHeld
  BY DEF Init, OneGate, HolderHeld, Waiting, Holding, Cancelable
<1> QED BY <1>1, <1>2, <1>3 DEF IInv

(* Steps between taking the root and leaving it, and giving up the wait.   *)
LEMMA MoveKeeps ==
    ASSUME IInv, UNCHANGED gates, NEW o \in Ops, NEW l,
           pc' = [pc EXCEPT ![o] = l],
           \/ pc[o] \in Holding /\ l \in Holding
           \/ pc[o] \in Waiting /\ l \in Waiting
    PROVE  IInv'
<1>1. GateType'
  BY DEF IInv, GateType, gates, Labels
<1>2. RefsCount'
  BY DEF IInv, RefsCount, Users, gates
<1>3. OneGate'
  BY DEF IInv, GateType, OneGate, gates
<1>4. HolderHeld'
  BY DEF IInv, GateType, HolderHeld, gates, Waiting, Holding, Cancelable
<1> QED BY <1>1, <1>2, <1>3, <1>4 DEF IInv

LEMMA QuietKeeps == IInv /\ UNCHANGED <<gates, pc>> => IInv'
BY DEF IInv, GateType, RefsCount, Users, OneGate, HolderHeld, gates

LEMMA EnterKeeps == ASSUME IInv, NEW o \in Ops, NEW d, Enter(o, d) PROVE IInv'
<1>0. PICK g \in Ops : g = IF entry = None THEN o ELSE entry
  BY DEF IInv, GateType
<1>1. /\ g \in Ops /\ pc[o] = "idle" /\ gate[o] = None
      /\ entry' = g /\ gate' = [gate EXCEPT ![o] = g] /\ refs' = [refs EXCEPT ![g] = @ + 1]
      /\ pc' = [pc EXCEPT ![o] = "wait"] /\ holder' = holder
  BY <1>0 DEF Enter, Goto, IInv, GateType, OneGate, Waiting, Holding, Cancelable
<1>2. \A q \in Ops : gate[q] # None => g = gate[q]
  BY <1>0 DEF IInv, OneGate
<1>3. GateType'
  BY <1>1 DEF IInv, GateType, Labels, Waiting
<1>4. RefsCount'
  <2> SUFFICES ASSUME NEW h \in Ops PROVE refs'[h] = Cardinality(Users(h)')
    BY DEF RefsCount
  <2>1. CASE h = g
    <3>1. Users(g)' = Users(g) \cup {o} /\ o \notin Users(g)
      BY <1>1, ProjectAssumption DEF IInv, GateType, Users
    <3>2. Cardinality(Users(g)') = Cardinality(Users(g)) + 1
      BY <3>1, UsersFinite, FS_AddElement
    <3>3. refs'[g] = refs[g] + 1
      BY <1>1 DEF IInv, GateType
    <3> QED BY <2>1, <3>2, <3>3, <1>1 DEF IInv, RefsCount
  <2>2. CASE h # g
    <3>1. Users(h)' = Users(h)
      BY <1>1, <2>2, ProjectAssumption DEF IInv, GateType, Users
    <3> QED BY <1>1, <2>2, <3>1 DEF IInv, GateType, RefsCount
  <2> QED BY <2>1, <2>2
<1>5. OneGate'
  BY <1>1, <1>2, ProjectAssumption DEF IInv, GateType, OneGate, Waiting
<1>6. HolderHeld'
  BY <1>1 DEF IInv, GateType, HolderHeld, Holding, Cancelable
<1> QED BY <1>3, <1>4, <1>5, <1>6 DEF IInv

LEMMA TakeRootKeeps == ASSUME IInv, NEW o \in Ops, TakeRoot(o) PROVE IInv'
<1> DEFINE l == IF o \in Generates THEN "baseline" ELSE "drift"
<1>1. /\ pc[o] = "wait" /\ holder[gate[o]] = None /\ holder' = [holder EXCEPT ![gate[o]] = o]
      /\ pc' = [pc EXCEPT ![o] = l] /\ UNCHANGED <<entry, refs, gate>>
  BY DEF TakeRoot, Enters, Goto
<1>2. l \in Holding
  BY DEF Holding, Cancelable
<1> HIDE DEF l
<1>3. gate[o] \in Ops /\ gate[o] = entry
  BY <1>1 DEF IInv, GateType, OneGate, Waiting
<1>4. \A q \in Ops : pc[q] \notin Holding
  BY <1>1, <1>3, ProjectAssumption DEF IInv, OneGate, HolderHeld
<1>5. GateType'
  BY <1>1, <1>2, <1>3 DEF IInv, GateType, Labels
<1>6. RefsCount'
  BY <1>1 DEF IInv, RefsCount, Users
<1>7. OneGate'
  BY <1>1, <1>2, <1>3, ProjectAssumption DEF IInv, GateType, OneGate
<1>8. HolderHeld'
  BY <1>1, <1>3, <1>4 DEF IInv, GateType, HolderHeld
<1> QED BY <1>5, <1>6, <1>7, <1>8 DEF IInv

LEMMA LeaveKeeps == ASSUME IInv, NEW o \in Ops, Leave(o) PROVE IInv'
<1>1. /\ pc[o] = "leave" /\ holder' = [holder EXCEPT ![gate[o]] = None]
      /\ pc' = [pc EXCEPT ![o] = "unref"] /\ UNCHANGED <<entry, refs, gate>>
  BY DEF Leave, Goto
<1>2. pc[o] \in Holding /\ gate[o] \in Ops /\ gate[o] = entry
  BY <1>1 DEF IInv, GateType, OneGate, Holding
<1>3. \A q \in Ops : pc[q] \in Holding => q = o
  BY <1>2 DEF IInv, OneGate, HolderHeld
<1>4. GateType'
  BY <1>1, <1>2 DEF IInv, GateType, Labels, Waiting
<1>5. RefsCount'
  BY <1>1 DEF IInv, RefsCount, Users
<1>6. OneGate'
  BY <1>1, <1>2, ProjectAssumption DEF IInv, GateType, OneGate, Waiting
<1>7. HolderHeld'
  BY <1>1, <1>3 DEF IInv, GateType, HolderHeld, Holding, Cancelable
<1> QED BY <1>4, <1>5, <1>6, <1>7 DEF IInv

LEMMA UnrefKeeps == ASSUME IInv, NEW o \in Ops, Unref(o) PROVE IInv'
<1>0. PICK g \in Ops : g = gate[o]
  BY DEF Unref, IInv, GateType, OneGate, Waiting
<1>1. /\ pc[o] = "unref" /\ refs' = [refs EXCEPT ![g] = @ - 1]
      /\ entry' = IF refs[g] = 1 /\ entry = g THEN None ELSE entry
      /\ gate' = [gate EXCEPT ![o] = None] /\ pc' = [pc EXCEPT ![o] = "done"] /\ holder' = holder
  BY <1>0 DEF Unref, Goto
<1>2. g \in Ops /\ g = entry /\ pc[o] \notin Holding
  BY <1>0, <1>1 DEF IInv, GateType, OneGate, Waiting, Holding, Cancelable
<1>4. /\ o \in Users(g) /\ Users(g)' = Users(g) \ {o}
      /\ \A h \in Ops \ {g} : Users(h)' = Users(h)
  BY <1>0, <1>1, <1>2, ProjectAssumption DEF IInv, GateType, Users
<1>5. /\ Cardinality(Users(g)') = Cardinality(Users(g)) - 1
      /\ Cardinality(Users(g)) \in Nat /\ Cardinality(Users(g)') \in Nat
  BY <1>4, UsersFinite, FS_RemoveElement, FS_CardinalityType
<1>6. GateType'
  <2>1. refs[g] - 1 \in Nat
    BY <1>2, <1>5 DEF IInv, RefsCount
  <2> QED BY <1>1, <1>2, <2>1 DEF IInv, GateType, Labels
<1>7. RefsCount'
  BY <1>1, <1>2, <1>4, <1>5 DEF IInv, GateType, RefsCount
<1>8. OneGate'
  <2>1. CASE refs[g] = 1
    <3>1. Users(g)' = {}
      BY <1>2, <1>4, <1>5, <2>1, UsersFinite, FS_Subset, FS_EmptySet DEF IInv, RefsCount
    <3>2. \A q \in Ops : gate'[q] = None
      BY <1>1, <1>2, <3>1 DEF IInv, GateType, OneGate, Users
    <3> QED BY <1>1, <1>2, <3>2 DEF IInv, GateType, OneGate, Waiting, Holding, Cancelable
  <2>2. CASE refs[g] # 1
    BY <1>1, <1>2, <2>2 DEF IInv, GateType, OneGate, Waiting, Holding, Cancelable
  <2> QED BY <2>1, <2>2
<1>9. HolderHeld'
  BY <1>1 DEF IInv, GateType, HolderHeld, Holding, Cancelable
<1> QED BY <1>6, <1>7, <1>8, <1>9 DEF IInv

LEMMA CrashKeeps == ASSUME IInv, Crash PROVE IInv'
<1>1. /\ entry' = None /\ gate' = [o \in Ops |-> None]
      /\ refs' = [o \in Ops |-> 0] /\ holder' = [o \in Ops |-> None]
      /\ pc' = [o \in Ops |-> IF pc[o] \in Waiting \cup Holding THEN "dead" ELSE pc[o]]
  BY DEF Crash
<1>2. \A o \in Ops : pc'[o] \in {"idle", "done", "dead"}
  BY <1>1 DEF IInv, GateType, Labels
<1>3. GateType'
  BY <1>1, <1>2 DEF GateType, Labels
<1>4. RefsCount'
  <2>1. \A g \in Ops : Users(g)' = {}
    BY <1>1, ProjectAssumption DEF Users
  <2> QED BY <1>1, <2>1, FS_EmptySet DEF RefsCount
<1>5. OneGate' /\ HolderHeld'
  BY <1>1, <1>2 DEF OneGate, HolderHeld, Waiting, Holding, Cancelable
<1> QED BY <1>3, <1>4, <1>5 DEF IInv

(* What a call does between taking the root and leaving it. *)
LEMMA WorkMoves ==
    ASSUME IInv, NEW o \in Ops,
           Fail(o) \/ ReplaceStep(o) \/ GenerateStep(o) \/ BuildStep(o)
    PROVE  UNCHANGED gates /\ pc[o] \in Holding /\ \E l \in Holding : pc' = [pc EXCEPT ![o] = l]
<1> USE DEF Goto, Enters, Returns, Turn, Holding, Cancelable
<1>1. CASE Fail(o)
  BY <1>1 DEF Fail
<1>2. CASE ReplaceStep(o)
  <2>1. CASE Install(o)
    BY <2>1 DEF Install
  <2>2. CASE InstallFails(o)
    BY <2>2 DEF InstallFails
  <2>3. CASE Settle(o) \/ SettleFails(o)
    BY <2>3 DEF Settle, SettleFails
  <2>4. CASE Rollback(o)
    BY <2>4 DEF Rollback, IInv, GateType
  <2>5. CASE Cleanup(o)
    BY <2>5 DEF Cleanup
  <2> QED BY <1>2, <2>1, <2>2, <2>3, <2>4, <2>5 DEF ReplaceStep
<1>3. CASE GenerateStep(o)
  <2>1. CASE ReadBaseline(o)
    BY <2>1 DEF ReadBaseline
  <2>2. CASE Prepare(o)
    BY <2>2 DEF Prepare
  <2>3. CASE Recheck(o)
    BY <2>3 DEF Recheck
  <2> QED BY <1>3, <2>1, <2>2, <2>3 DEF GenerateStep
<1>4. CASE BuildStep(o)
  <2>1. CASE CheckDrift(o)
    BY <2>1 DEF CheckDrift
  <2>2. CASE InspectBuildTarget(o) \/ NewBuildStaging(o) \/ Compile(o)
    BY <2>2 DEF InspectBuildTarget, NewBuildStaging, Compile
  <2>3. CASE MatchTarget(o)
    BY <2>3 DEF MatchTarget
  <2>4. CASE CopyStagedBuildOutput(o) \/ CloseStaging(o)
    BY <2>4 DEF CopyStagedBuildOutput, CloseStaging
  <2>5. CASE Backup(o)
    BY <2>5 DEF Backup
  <2> QED BY <1>4, <2>1, <2>2, <2>3, <2>4, <2>5 DEF BuildStep
<1> QED BY <1>1, <1>2, <1>3, <1>4

LEMMA NextIInv == IInv /\ [Next]_vars => IInv'
<1> SUFFICES ASSUME IInv, [Next]_vars PROVE IInv'
  OBVIOUS
<1>1. ASSUME NEW o \in Ops, NEW d \in Definitions, Enter(o, d) PROVE IInv'
  BY <1>1, EnterKeeps
<1>2. ASSUME NEW o \in Ops, GateStep(o) PROVE IInv'
  BY <1>2, TakeRootKeeps, LeaveKeeps, UnrefKeeps DEF GateStep
<1>3. ASSUME NEW o \in Ops, GiveUp(o) PROVE IInv'
  <2>1. pc' = [pc EXCEPT ![o] = "unref"] /\ pc[o] \in Waiting /\ UNCHANGED gates
    BY <1>3 DEF GiveUp, Returns, Goto, Waiting
  <2>2. "unref" \in Waiting
    BY DEF Waiting
  <2> QED BY <2>1, <2>2, MoveKeeps
<1>4. ASSUME NEW o \in Ops, Fail(o) \/ ReplaceStep(o) \/ GenerateStep(o) \/ BuildStep(o) PROVE IInv'
  <2>1. PICK l \in Holding : pc' = [pc EXCEPT ![o] = l]
    BY <1>4, WorkMoves
  <2>2. UNCHANGED gates /\ pc[o] \in Holding
    BY <1>4, WorkMoves
  <2> QED BY <2>1, <2>2, MoveKeeps
<1>5. ASSUME NEW p \in Paths, ForeignWrite(p) PROVE IInv'
  BY <1>5, QuietKeeps DEF ForeignWrite
<1>6. CASE UNCHANGED vars
  BY <1>6, QuietKeeps DEF vars
<1> QED BY <1>1, <1>2, <1>3, <1>4, <1>5, <1>6, CrashKeeps DEF Next, Ops

(* generate.go: "Calls in this process are serialized per root".  However  *)
(* many calls of Generate and Build run, wait, give up or end with their   *)
(* process, acquireProjectRoot lets one at a time hold the root.           *)
THEOREM CallsTakeTurns == Spec => []RootSerialized
<1>1. IInv => RootSerialized
  BY DEF IInv, OneGate, HolderHeld, RootSerialized
<1> QED BY <1>1, InitIInv, NextIInv, PTL DEF Spec
=============================================================================
