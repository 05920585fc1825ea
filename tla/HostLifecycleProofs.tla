------------------------- MODULE HostLifecycleProofs -------------------------
(***************************************************************************)
(* The safety of module.Host for any number of Modules, cleanups, Shutdown *)
(* callers and facade calls.                                               *)
(***************************************************************************)
EXTENDS HostLifecycle, SequenceTheorems, TLAPS

Loop == {"validate", "check", "callback", "bind", "migrate", "final"}
Ended == {"finish", "returned"}
Cleaning == {"reset", "module", "invoke", "wait", "complete"}

(* Where the Host, its starting goroutine and its cleanup are together. *)
Position ==
    \/ state = "new" /\ pc = "idle" /\ cleaner = "off"
    \/ state = "starting" /\ pc \in Loop /\ cleaner = "off"
    \/ state = "starting" /\ pc \in {"cleanFailure", "cleanMigration"} /\ cleaner \in Cleaning
    \/ state = "running" /\ pc \in Ended /\ cleaner = "off"
    \/ state = "stopping" /\ pc \in Ended /\ cleaner \in {"await"} \cup Cleaning
    \/ state \in Terminal /\ pc \in Ended /\ cleaner = "off"

StopInv == stopRequested => state = "starting" \/ state \in Terminal

(* The facades exist only once the Host has run, and the cleanup has       *)
(* passed the drain of their gate.                                         *)
DrainInv ==
    /\ state \in {"new", "starting"} => ~assembled
    /\ state \notin {"new", "starting", "running"} => ~open \/ ~assembled
    /\ ~assembled => leases = {}
    /\ drained => leases = {} /\ ~open
    /\ cleaner \in Cleaning => leases = {}
    /\ cleaner \in Cleaning /\ cleaner # "reset" => revoked
    /\ log # <<>> => /\ leases = {}
                     /\ revoked
                     /\ state \in {"starting", "stopping"} => cleaner \in Cleaning
                     /\ state \notin {"new", "running"}

Types ==
    /\ next \in 1..(N + 1)
    /\ runtimes \in Seq(Modules)
    /\ todo \in Seq(Modules)
    /\ registered \in [Modules -> 0..MaxCleanups]
    /\ left \in 0..MaxCleanups
    /\ log \in Seq(Cleanups)
    /\ pc \in {"callback", "bind"} => next \in Modules
    /\ cleaner = "wait" => left > 0

Ascending(s) == \A i, j \in 1..Len(s) : i < j => s[i] < s[j]

(* The runtimes stand in the order of the graph, what is logged comes      *)
(* after whatever is still to be cleaned.                                  *)
OrderInv ==
    /\ Ascending(runtimes)
    /\ pc \in Loop => \A i \in 1..Len(runtimes) : runtimes[i] < next
    /\ pc \in {"idle", "validate"} => runtimes = <<>>
    /\ Ascending(todo)
    /\ cleaner \in {"module", "invoke", "wait"} => Len(todo) > 0
    /\ cleaner \in {"await", "reset"} => log = <<>>
    /\ \A i \in 1..Len(log) :
          /\ cleaner = "module" => Current < log[i][1]
          /\ cleaner = "invoke" => \/ Current < log[i][1]
                                   \/ Current = log[i][1] /\ left < log[i][2]
          /\ cleaner = "wait" => \/ Current < log[i][1]
                                 \/ Current = log[i][1] /\ left <= log[i][2]
    /\ CleanupsReversed

In(m, s) == \E i \in 1..Len(s) : s[i] = m
Used(m) == registered[m] > 0 \/ m \in services
Logged(m, n) == In(<<m, n>>, log)

(* Every Module that registered or published anything is on the way to its *)
(* cleanup, and what it registered is invoked or still to be invoked.      *)
LeakInv ==
    /\ services \subseteq Modules
    /\ \A m \in scope : m = next /\ pc = "callback"
    /\ state = "new" \/ pc \in Loop =>
          \A m \in Modules : Used(m) => In(m, runtimes) \/ (m = next /\ pc \in {"callback", "bind"})
    /\ state = "running" => \A m \in Modules : Used(m) => In(m, runtimes)
    /\ cleaner # "off" =>
          /\ \A m \in services : In(m, todo)
          /\ \A m \in Modules : \A n \in 1..registered[m] :
                \/ Logged(m, n)
                \/ /\ In(m, todo)
                   /\ cleaner \in {"invoke", "wait"} /\ m = Current => n <= left
    /\ cleaner = "complete" => Len(todo) = 0
    /\ cleaner \in {"invoke", "wait"} => left <= registered[Current]
    /\ cleaner = "wait" => Logged(Current, left)
    /\ \A i \in 1..Len(log) : log[i][2] <= registered[log[i][1]]
    /\ state \in Terminal =>
          /\ services = {}
          /\ \A m \in Modules : \A n \in 1..registered[m] : Logged(m, n)

(* What a Shutdown caller may conclude from the end it waited for. *)
NilInv ==
    /\ caller \in [Callers -> CallerLabels]
    /\ doneCloses \in 0..1
    /\ cleaner = "off" => ~cleanErr \/ state \in Terminal
    /\ state \in Terminal /\ ~shutdownErr => ~cleanErr
    /\ ~cleanErr => \A c \in running : cleaner = "wait" /\ c = <<Current, left>>
    /\ startDone => pc = "returned"
    /\ doneCloses > 0 => state \in Terminal
    /\ \A k \in Callers : caller[k] \in {"cancel", "waitStart"} => stopRequested
    /\ \A k \in Callers : caller[k] = "nil" => state \in Terminal /\ ~cleanErr

IInv == Position /\ StopInv /\ DrainInv /\ Types /\ OrderInv /\ LeakInv /\ NilInv

-----------------------------------------------------------------------------
LEMMA InitIInv == Init => IInv
<1> SUFFICES ASSUME Init PROVE IInv
  OBVIOUS
<1> USE DEF Init, Gate!Init
<1>1. Position /\ StopInv /\ DrainInv
  BY DEF Position, StopInv, DrainInv, Cleaning
<1>2. Types
  BY HostAssumption DEF Types, Modules
<1>3. OrderInv
  BY DEF OrderInv, Ascending, CleanupsReversed
<1>4. LeakInv
  BY DEF LeakInv, Loop, Used, Terminal, Modules
<1>5. NilInv
  BY DEF NilInv, Terminal, CallerLabels
<1> QED BY <1>1, <1>2, <1>3, <1>4, <1>5 DEF IInv

-----------------------------------------------------------------------------
Control == Position /\ StopInv /\ DrainInv

(* A label set or a group of variables stands for its elements. *)
LEMMA ControlStarter == ASSUME Control, Starter PROVE Control'
<1> USE DEF Control, Position, StopInv, DrainInv, Loop, Ended, Cleaning, Terminal
<1> USE DEF cleanVars, gateVars, endVars, installVars
<1>1. CASE Validate
  BY <1>1 DEF Validate, Conclude
<1>2. CASE CheckModule
  BY <1>2 DEF CheckModule, CleanFrom
<1>3. CASE StartCallback
  BY <1>3 DEF StartCallback, CleanFrom
<1>4. CASE Bind
  BY <1>4 DEF Bind, CleanFrom
<1>5. CASE ApplyMigrations
  BY <1>5 DEF ApplyMigrations
<1>6. CASE Final
  BY <1>6 DEF Final, CleanFrom
<1>7. CASE FinishStart
  BY <1>7 DEF FinishStart
<1> QED BY <1>1, <1>2, <1>3, <1>4, <1>5, <1>6, <1>7 DEF Starter

LEMMA ControlCleaner == ASSUME Control, Cleaner, todo \in Seq(Modules) PROVE Control'
<1> USE DEF Control, Position, StopInv, DrainInv, Loop, Ended, Cleaning, Terminal
<1> USE DEF gateVars, endVars, installVars, startVars
<1>1. CASE AwaitDrained
  BY <1>1 DEF AwaitDrained
<1>2. CASE ResetRegistry
  BY <1>2 DEF ResetRegistry
<1>3. CASE BeginCleanup
  BY <1>3 DEF BeginCleanup
<1>4. CASE InvokeCleanup
  BY <1>4 DEF InvokeCleanup
<1>5. CASE AwaitCleanup
  BY <1>5 DEF AwaitCleanup
<1>6. CASE Unpublish
  BY <1>6 DEF Unpublish
<1>7. CASE CompleteStartFailure
  BY <1>7 DEF CompleteStartFailure, Conclude
<1>8. CASE CompleteMigration
  BY <1>8 DEF CompleteMigration, Conclude
<1>9. CASE FinishShutdown
  BY <1>9 DEF FinishShutdown
<1> QED BY <1>1, <1>2, <1>3, <1>4, <1>5, <1>6, <1>7, <1>8, <1>9 DEF Cleaner

LEMMA ControlShutdown == ASSUME Control, NEW k \in Callers, Shutdown(k) PROVE Control'
<1> USE DEF Control, Position, StopInv, DrainInv, Loop, Ended, Cleaning, Terminal
<1> USE DEF cleanVars, gateVars, endVars, installVars, startVars
<1>1. CASE StopRunning(k)
  BY <1>1 DEF StopRunning, Gate!Close
<1>2. CASE StopStarting(k)
  BY <1>2 DEF StopStarting
<1>3. CASE CancelByCaller(k)
  BY <1>3 DEF CancelByCaller
<1>4. CASE ShutdownElse(k)
  BY <1>4 DEF ShutdownElse
<1>5. CASE WaitForShutdown(k)
  BY <1>5 DEF WaitForShutdown
<1> QED BY <1>1, <1>2, <1>3, <1>4, <1>5 DEF Shutdown

LEMMA ControlStep == ASSUME Control, [Next]_vars, todo \in Seq(Modules) PROVE Control'
<1> USE DEF Control, Position, StopInv, DrainInv, Loop, Ended, Cleaning, Terminal
<1> USE DEF cleanVars, gateVars, endVars, installVars, startVars
<1>1. CASE Start \/ Migrate
  BY <1>1 DEF Start, Migrate, Begin
<1>2. CASE CancelStart
  BY <1>2 DEF CancelStart
<1>3. ASSUME NEW m \in Modules, OnStop(m) \/ Provide(m) PROVE Control'
  BY <1>3 DEF OnStop, Provide
<1>4. CASE Assemble
  BY <1>4 DEF Assemble
<1>5. ASSUME NEW k \in Calls, Enter(k) PROVE Control'
  BY <1>5 DEF Enter, Gate!Acquire
<1>6. ASSUME NEW k \in Calls, Leave(k) PROVE Control'
  BY <1>6 DEF Leave, Gate!Release
<1>7. CASE Straggle
  BY <1>7 DEF Straggle
<1>8. CASE UNCHANGED vars
  BY <1>8 DEF vars
<1> HIDE DEF Control
<1> QED BY <1>1, <1>2, <1>3, <1>4, <1>5, <1>6, <1>7, <1>8, ControlStarter, ControlCleaner, ControlShutdown DEF Next

-----------------------------------------------------------------------------
Listed == Types /\ OrderInv

(* What the steps of the cleanup use of the lists. *)
LEMMA LogSequence == ASSUME Listed PROVE log \in Seq(Cleanups) /\ Len(log) \in Nat
<1>1. log \in Seq(Cleanups)
  BY Zenon DEF Listed, Types
<1> QED BY <1>1

LEMMA CurrentTyped ==
    ASSUME Listed, cleaner \in {"module", "invoke", "wait"}
    PROVE  todo \in Seq(Modules) /\ Len(todo) \in Nat /\ Len(todo) > 0 /\ Current \in Modules
<1>1. todo \in Seq(Modules)
  BY Zenon DEF Listed, Types
<1>2. Len(todo) > 0
  BY Zenon DEF Listed, OrderInv
<1>3. Len(todo) \in Nat
  BY <1>1
<1>4. Len(todo) \in 1..Len(todo)
  BY <1>2, <1>3
<1>5. Current \in Modules
  BY <1>1, <1>4 DEF Current
<1> QED BY <1>1, <1>2, <1>3, <1>5

LEMMA CountsTyped ==
    ASSUME Listed PROVE left \in 0..MaxCleanups /\ left \in Nat /\ \A m \in Modules : registered[m] \in Nat
<1>1. left \in 0..MaxCleanups /\ registered \in [Modules -> 0..MaxCleanups]
  BY Zenon DEF Listed, Types
<1> QED BY <1>1, HostAssumption

LEMMA NextListed ==
    ASSUME runtimes \in Seq(Modules), next \in Modules PROVE Append(runtimes, next) \in Seq(Modules)
OBVIOUS

LEMMA TypesStep == ASSUME Control, Listed, [Next]_vars PROVE Types'
<1> USE HostAssumption DEF Listed, Types, Modules
<1> USE DEF cleanVars, gateVars, endVars, installVars, startVars
<1>1. CASE Start \/ Migrate \/ CancelStart \/ Assemble \/ Straggle \/ UNCHANGED vars
  BY <1>1 DEF Start, Migrate, Begin, CancelStart, Assemble, Straggle, vars
<1>2. CASE Validate
  BY <1>2 DEF Validate, Conclude
<1>3. CASE CheckModule
  <2>1. CASE next = N + 1
    BY <1>3, <2>1 DEF CheckModule
  <2>2. CASE next \in Modules
    <3> HIDE DEF Modules
    <3>1. next + 1 \in 1..(N + 1)
      BY <2>2 DEF Modules
    <3>2. todo' \in Seq(Modules)
      BY <1>3, <2>2, NextListed DEF CheckModule, CleanFrom
    <3> QED BY <1>3, <2>2, <3>1, <3>2 DEF CheckModule, CleanFrom
  <2>3. next = N + 1 \/ next \in Modules
    <3>1. next \in 1..(N + 1) /\ N \in Nat
      BY Zenon
    <3> HIDE DEF Listed, Types
    <3> QED BY <3>1
  <2> QED BY Zenon, <2>1, <2>2, <2>3
<1>4. CASE StartCallback \/ Bind
  <2> HIDE DEF Modules
  <2>1. next \in Modules /\ next + 1 \in 1..(N + 1)
    BY <1>4 DEF StartCallback, Bind, Modules
  <2>2. Append(runtimes, next) \in Seq(Modules)
    BY <2>1, NextListed
  <2>3. CASE StartCallback
    BY <2>1, <2>2, <2>3 DEF StartCallback, CleanFrom
  <2>4. CASE Bind
    BY <2>1, <2>2, <2>4 DEF Bind, CleanFrom
  <2> QED BY <1>4, <2>3, <2>4
<1>6. CASE ApplyMigrations \/ Final \/ FinishStart
  BY <1>6 DEF ApplyMigrations, Final, FinishStart, CleanFrom
<1>5. ASSUME NEW m \in Modules, OnStop(m) PROVE Types'
  <2>1. registered[m] + 1 \in 0..MaxCleanups
    BY <1>5 DEF OnStop
  <2>2. registered' \in [Modules -> 0..MaxCleanups]
    BY <1>5, <2>1 DEF OnStop
  <2> QED BY <1>5, <2>2 DEF OnStop
<1>7. ASSUME NEW m \in Modules, Provide(m) PROVE Types'
  BY <1>7 DEF Provide
<1>8. ASSUME NEW k \in Calls, Enter(k) \/ Leave(k) PROVE Types'
  BY <1>8 DEF Enter, Leave
<1>9. CASE AwaitDrained \/ ResetRegistry
  BY <1>9 DEF AwaitDrained, ResetRegistry
<1>10. CASE BeginCleanup
  <2>1. Current \in Modules
    <3> HIDE DEF Listed, Types, Modules
    <3>1. cleaner = "module"
      BY <1>10 DEF BeginCleanup
    <3> QED BY <3>1, CurrentTyped
  <2> QED BY <1>10, <2>1 DEF BeginCleanup
<1>11. CASE InvokeCleanup
  <2>2. <<Current, left>> \in Cleanups
    <3> HIDE DEF Listed, Types, Modules
    <3>1. cleaner = "invoke" /\ left > 0
      BY <1>11 DEF InvokeCleanup
    <3>2. Current \in Modules
      BY <3>1, CurrentTyped
    <3>3. left \in 1..MaxCleanups
      BY <3>1, CountsTyped
    <3> QED BY <3>2, <3>3 DEF Cleanups
  <2> QED BY <1>11, <2>2 DEF InvokeCleanup
<1>12. CASE AwaitCleanup
  <2>1. left > 0
    BY <1>12 DEF AwaitCleanup, OrderInv
  <2> QED BY <1>12, <2>1 DEF AwaitCleanup
<1>13. CASE Unpublish
  <2>2. SubSeq(todo, 1, Len(todo) - 1) \in Seq(Modules)
    <3> HIDE DEF Listed, Types, Modules
    <3>1. cleaner = "invoke"
      BY <1>13 DEF Unpublish
    <3>2. todo \in Seq(Modules) /\ Len(todo) \in Nat /\ Len(todo) > 0
      BY <3>1, CurrentTyped
    <3>3. \A i \in 1..(Len(todo) - 1) : todo[i] \in Modules
      BY <3>2
    <3> QED BY <3>2, <3>3, SubSeqProperties
  <2> QED BY <1>13, <2>2 DEF Unpublish
<1>14. CASE CompleteStartFailure \/ CompleteMigration \/ FinishShutdown
  BY <1>14 DEF CompleteStartFailure, CompleteMigration, FinishShutdown, Conclude
<1>15. ASSUME NEW k \in Callers, Shutdown(k) PROVE Types'
  BY <1>15 DEF Shutdown, StopRunning, StopStarting, CancelByCaller, ShutdownElse, WaitForShutdown
<1> QED BY <1>1, <1>2, <1>3, <1>4, <1>5, <1>6, <1>7, <1>8, <1>9, <1>10, <1>11, <1>12, <1>13, <1>14, <1>15
        DEF Next, Starter, Cleaner

LEMMA AppendAscends ==
    ASSUME NEW s \in Seq(Modules), NEW m \in Modules, Ascending(s), \A i \in 1..Len(s) : s[i] < m
    PROVE  Ascending(Append(s, m)) /\ \A i \in 1..Len(Append(s, m)) : Append(s, m)[i] < m + 1
<1> USE HostAssumption DEF Modules
<1>1. Len(Append(s, m)) = Len(s) + 1 /\ Append(s, m)[Len(s) + 1] = m
      /\ \A i \in 1..Len(s) : Append(s, m)[i] = s[i] /\ s[i] \in Modules
  OBVIOUS
<1>2. \A i \in 1..(Len(s) + 1) : i \in 1..Len(s) \/ i = Len(s) + 1
  OBVIOUS
<1>3. Ascending(Append(s, m))
  BY <1>1, <1>2 DEF Ascending
<1>4. \A i \in 1..Len(Append(s, m)) : Append(s, m)[i] < m + 1
  BY <1>1, <1>2
<1> QED BY <1>3, <1>4

LEMMA Rest ==
    ASSUME NEW s \in Seq(Modules), Len(s) > 0
    PROVE  /\ Len(SubSeq(s, 1, Len(s) - 1)) = Len(s) - 1
           /\ \A i \in 1..(Len(s) - 1) : SubSeq(s, 1, Len(s) - 1)[i] = s[i]
<1>1. Len(s) \in Nat /\ \A i \in 1..(Len(s) - 1) : s[i] \in Modules
  OBVIOUS
<1> DEFINE n == Len(s) - 1
           r == SubSeq(s, 1, n)
<1>2. /\ Len(r) = IF 1 <= n THEN n - 1 + 1 ELSE 0
      /\ \A i \in 1..(n - 1 + 1) : r[i] = s[1 + i - 1]
  BY <1>1, SubSeqProperties
<1>3. n \in Nat
  BY <1>1
<1> HIDE DEF n, r
<1>4. Len(r) = n
  BY <1>2, <1>3
<1>5. \A i \in 1..n : r[i] = s[i]
  <2> SUFFICES ASSUME NEW i \in 1..n PROVE r[i] = s[i]
    OBVIOUS
  <2>1. i \in 1..(n - 1 + 1) /\ 1 + i - 1 = i
    BY <1>3
  <2> QED BY <1>2, <2>1
<1> QED BY <1>4, <1>5 DEF n, r

LEMMA RestAscends ==
    ASSUME NEW s \in Seq(Modules), Ascending(s), Len(s) > 0
    PROVE  LET r == SubSeq(s, 1, Len(s) - 1)
           IN  /\ Ascending(r)
               /\ Len(r) = Len(s) - 1
               /\ \A i \in 1..(Len(s) - 1) : r[i] = s[i] /\ s[i] < s[Len(s)]
<1> DEFINE r == SubSeq(s, 1, Len(s) - 1)
<1>1. Len(r) = Len(s) - 1 /\ \A i \in 1..(Len(s) - 1) : r[i] = s[i]
  BY Rest
<1> HIDE DEF r
<1>2. Len(s) \in Nat /\ 1..(Len(s) - 1) \subseteq 1..Len(s) /\ Len(s) \in 1..Len(s)
  OBVIOUS
<1>3. Ascending(r)
  BY <1>1, <1>2 DEF Ascending
<1>4. \A i \in 1..(Len(s) - 1) : s[i] < s[Len(s)]
  BY <1>2 DEF Ascending
<1> QED BY <1>1, <1>3, <1>4 DEF r

LEMMA LogTyped ==
    ASSUME Types, NEW i \in 1..Len(log)
    PROVE  /\ log[i][1] \in Modules /\ log[i][1] \in Nat
           /\ log[i][2] \in 1..MaxCleanups /\ log[i][2] \in Nat
           /\ log[i] = <<log[i][1], log[i][2]>>
<1>1. log[i] \in Modules \X (1..MaxCleanups)
  BY DEF Types, Cleanups
<1> QED BY <1>1, HostAssumption DEF Modules

(* Steps that leave the lists and the cleanup alone. *)
LEMMA OrderQuiet ==
    ASSUME OrderInv, UNCHANGED <<runtimes, next, cleaner, todo, left, log>>,
           pc' = pc \/ (pc' \notin {"idle", "validate"} /\ (pc' \in Loop => pc \in Loop))
    PROVE  OrderInv'
BY DEF OrderInv, Ascending, CleanupsReversed, Current

(* The cleanup begins over a list that is in order, before anything is logged. *)
LEMMA OrderBegins ==
    ASSUME Listed, cleaner' \in {"await", "reset"}, log = <<>>, log' = log, runtimes' = runtimes,
           pc' \notin Loop \cup {"idle"}, Ascending(todo')
    PROVE  OrderInv'
<1>1. Ascending(runtimes)'
  <2>1. Ascending(runtimes)
    BY Zenon DEF Listed, OrderInv
  <2> QED BY Zenon, <2>1 DEF Ascending
<1>2. CleanupsReversed'
  BY DEF CleanupsReversed
<1>3. 1..Len(log') = {}
  OBVIOUS
<1>4. Ascending(todo)'
  BY Zenon DEF Ascending
<1>5. pc' \notin {"idle", "validate"}
  BY DEF Loop
<1> QED BY <1>1, <1>2, <1>3, <1>4, <1>5 DEF OrderInv

(* What is left of the order when only the cleanup moves. *)
LEMMA OrderKept ==
    ASSUME OrderInv, UNCHANGED <<runtimes, pc, next>>
    PROVE  /\ Ascending(runtimes)'
           /\ pc' \in Loop => \A i \in 1..Len(runtimes') : runtimes'[i] < next'
           /\ pc' \in {"idle", "validate"} => runtimes' = <<>>
           /\ log' = log => CleanupsReversed'
           /\ todo' = todo => Ascending(todo)'
<1>1. Ascending(runtimes)'
  BY Zenon DEF OrderInv, Ascending
<1>2. pc' \in Loop => \A i \in 1..Len(runtimes') : runtimes'[i] < next'
  BY Zenon DEF OrderInv
<1>3. pc' \in {"idle", "validate"} => runtimes' = <<>>
  BY Zenon DEF OrderInv
<1>4. log' = log => CleanupsReversed'
  BY Zenon DEF OrderInv, CleanupsReversed
<1>5. todo' = todo => Ascending(todo)'
  BY Zenon DEF OrderInv, Ascending
<1> QED BY <1>1, <1>2, <1>3, <1>4, <1>5

LEMMA OrderStarter == ASSUME Control, Listed, Starter PROVE OrderInv'
<1> USE DEF Loop
<1>0. log = <<>> \/ pc \notin Loop
  BY DEF Control, Position, DrainInv, Cleaning, Ended, Terminal
<1>1. CASE Validate
  BY <1>1, OrderQuiet DEF Validate, Conclude, Listed, cleanVars
<1>2. CASE CheckModule
  <2>1. CASE next = N + 1
    BY <1>2, <2>1, HostAssumption, OrderQuiet DEF CheckModule, Listed
  <2>2. CASE next \in Modules
    <3>1. Ascending(runtimes) /\ Ascending(Append(runtimes, next))
      BY <1>2, <2>2, AppendAscends DEF CheckModule, Listed, Types, OrderInv
    <3>2. CASE next' = next + 1
      <4>1. UNCHANGED <<runtimes, pc, cleaner, todo, left, log>>
        BY <1>2, <2>2, <3>2, HostAssumption DEF CheckModule, CleanFrom, Modules
      <4>2. \A i \in 1..Len(runtimes) : runtimes[i] < next + 1
        <5>1. \A i \in 1..Len(runtimes) : runtimes[i] \in Nat /\ runtimes[i] < next /\ next \in Nat
          BY <1>2, <2>2, HostAssumption DEF CheckModule, Listed, Types, OrderInv, Modules
        <5> QED BY <5>1
      <4> QED BY <3>2, <4>1, <4>2 DEF Listed, OrderInv, Ascending, CleanupsReversed, Current
    <3>3. CASE pc' = "callback"
      BY <1>2, <2>2, <3>3, HostAssumption, OrderQuiet DEF CheckModule, CleanFrom, Listed, Modules
    <3>4. CASE pc' = "cleanFailure"
      BY <1>0, <1>2, <2>2, <3>1, <3>4, HostAssumption, OrderBegins DEF CheckModule, CleanFrom, Modules
    <3> QED BY <1>2, <2>2, <3>2, <3>3, <3>4, HostAssumption DEF CheckModule, CleanFrom, Modules
  <2> QED BY <2>1, <2>2, HostAssumption DEF Listed, Types, Modules
<1>3. CASE StartCallback
  <2>1. Ascending(Append(runtimes, next))
    BY <1>3, AppendAscends DEF StartCallback, Listed, Types, OrderInv
  <2>2. CASE pc' = "bind"
    BY <1>3, <2>2, OrderQuiet DEF StartCallback, CleanFrom, Listed
  <2>3. CASE pc' = "cleanFailure"
    BY <1>0, <1>3, <2>1, <2>3, OrderBegins DEF StartCallback, CleanFrom
  <2> QED BY <1>3, <2>2, <2>3 DEF StartCallback, CleanFrom
<1>4. CASE Bind
  <2>1. /\ Ascending(Append(runtimes, next))
        /\ \A i \in 1..Len(Append(runtimes, next)) : Append(runtimes, next)[i] < next + 1
    BY <1>4, AppendAscends DEF Bind, Listed, Types, OrderInv
  <2>2. CASE pc' = "check"
    <3>1. /\ runtimes' = Append(runtimes, next) /\ next' = next + 1
          /\ UNCHANGED <<cleaner, todo, left, log>>
      BY <1>4, <2>2 DEF Bind, CleanFrom
    <3>2. cleaner = "off"
      BY <1>4 DEF Bind, Control, Position, Ended, Terminal
    <3>3. Ascending(todo)' /\ CleanupsReversed'
      BY <3>1 DEF Listed, OrderInv, Ascending, CleanupsReversed
    <3>4. Ascending(runtimes)' /\ \A i \in 1..Len(runtimes') : runtimes'[i] < next'
      BY <2>1, <3>1 DEF Ascending
    <3> QED BY <2>2, <3>1, <3>2, <3>3, <3>4 DEF OrderInv
  <2>3. CASE pc' = "cleanFailure"
    BY <1>0, <1>4, <2>1, <2>3, OrderBegins DEF Bind, CleanFrom
  <2> QED BY <1>4, <2>2, <2>3 DEF Bind, CleanFrom
<1>5. CASE ApplyMigrations
  BY <1>0, <1>5, OrderBegins DEF ApplyMigrations, Listed, OrderInv
<1>6. CASE Final
  <2>1. CASE pc' = "finish"
    BY <1>6, <2>1, OrderQuiet DEF Final, CleanFrom, Listed
  <2>2. CASE pc' = "cleanFailure"
    BY <1>0, <1>6, <2>2, OrderBegins DEF Final, CleanFrom, Listed, OrderInv
  <2> QED BY <1>6, <2>1, <2>2 DEF Final, CleanFrom
<1>7. CASE FinishStart
  BY <1>7, OrderQuiet DEF FinishStart, Listed, cleanVars
<1> QED BY <1>1, <1>2, <1>3, <1>4, <1>5, <1>6, <1>7 DEF Starter

LEMMA OrderCleaner == ASSUME Control, Listed, Cleaner, Types' PROVE OrderInv'
<1> USE DEF Loop
<1>0. cleaner # "off" => pc \notin Loop
  BY DEF Control, Position, Ended, Terminal
<1>1. CASE AwaitDrained
  BY <1>0, <1>1 DEF AwaitDrained, Listed, OrderInv, Ascending, CleanupsReversed, startVars
<1>2. CASE ResetRegistry
  <2>1. log = <<>> /\ log' = <<>>
    BY <1>2 DEF ResetRegistry, Listed, OrderInv
  <2>2. todo # <<>> => Len(todo) > 0
    BY DEF Listed, Types
  <2> QED BY <1>0, <1>2, <2>1, <2>2 DEF ResetRegistry, Listed, OrderInv, Ascending, CleanupsReversed, startVars
<1>3. CASE BeginCleanup
  BY <1>0, <1>3 DEF BeginCleanup, Listed, OrderInv, Ascending, CleanupsReversed, startVars, Current
<1>4. CASE InvokeCleanup
  <2>1. /\ Len(log') = Len(log) + 1
        /\ log'[Len(log) + 1] = <<Current, left>>
        /\ \A i \in 1..Len(log) : log'[i] = log[i]
    <3>1. log' = Append(log, <<Current, left>>) /\ cleaner = "invoke" /\ left > 0
      BY <1>4 DEF InvokeCleanup
    <3>2. <<Current, left>> \in Cleanups
      BY <3>1, CurrentTyped, CountsTyped DEF Cleanups
    <3> QED BY <3>1, <3>2, LogSequence
  <2>2. \A i \in 1..(Len(log) + 1) : i \in 1..Len(log) \/ i = Len(log) + 1
    BY LogSequence
  <2>3. UNCHANGED <<runtimes, pc, next, todo, left>> /\ cleaner = "invoke" /\ cleaner' = "wait"
    BY <1>4 DEF InvokeCleanup, startVars
  <2>4. \A i \in 1..Len(log) :
           \/ Current < log[i][1]
           \/ Current = log[i][1] /\ left < log[i][2]
    BY <2>3 DEF Listed, OrderInv
  <2>5. Len(log) \in Nat /\ left \in Nat /\ \A i \in 1..Len(log) : log[i][1] \in Nat /\ log[i][2] \in Nat
    BY LogSequence, CountsTyped, LogTyped DEF Listed
  <2>6. CleanupsReversed'
    <3>1. CleanupsReversed
      BY DEF Listed, OrderInv
    <3> SUFFICES ASSUME NEW i \in 1..(Len(log) + 1), NEW j \in 1..(Len(log) + 1), i < j
                 PROVE  \/ log'[j][1] < log'[i][1]
                        \/ log'[j][1] = log'[i][1] /\ log'[j][2] < log'[i][2]
      BY <2>1 DEF CleanupsReversed
    <3>2. i \in 1..Len(log)
      BY <2>5
    <3>3. CASE j \in 1..Len(log)
      BY <2>1, <3>1, <3>2, <3>3 DEF CleanupsReversed
    <3>4. CASE j = Len(log) + 1
      <4>1. log'[j][1] = Current /\ log'[j][2] = left /\ log'[i] = log[i]
        BY <2>1, <3>2, <3>4
      <4> QED BY <2>4, <3>2, <4>1
    <3> QED BY <2>2, <3>3, <3>4
  <2>7. \A i \in 1..Len(log') :
           \/ Current < log'[i][1]
           \/ Current = log'[i][1] /\ left <= log'[i][2]
    BY <2>1, <2>2, <2>4, <2>5
  <2>8. Current' = Current
    BY <2>3 DEF Current
  <2>9. OrderInv /\ todo' = todo /\ Len(todo) > 0
    BY <2>3, CurrentTyped DEF Listed
  <2> QED BY <2>3, <2>6, <2>7, <2>8, <2>9, OrderKept DEF OrderInv
<1>5. CASE AwaitCleanup
  <2>1. /\ left' = left - 1 /\ cleaner = "wait" /\ cleaner' = "invoke"
        /\ UNCHANGED <<runtimes, pc, next, todo, log>>
    BY <1>5 DEF AwaitCleanup, startVars
  <2>2. left \in Nat /\ \A i \in 1..Len(log) : log[i][2] \in Nat
    BY LogTyped, CountsTyped DEF Listed
  <2>3. \A i \in 1..Len(log) : Current < log[i][1] \/ (Current = log[i][1] /\ left <= log[i][2])
    BY <2>1 DEF Listed, OrderInv
  <2>4. \A i \in 1..Len(log) : Current < log[i][1] \/ (Current = log[i][1] /\ left' < log[i][2])
    BY <2>1, <2>2, <2>3
  <2>5. Current' = Current
    BY <2>1 DEF Current
  <2>6. OrderInv /\ Len(todo) > 0
    BY <2>1, CurrentTyped DEF Listed
  <2> QED BY <2>1, <2>4, <2>5, <2>6, OrderKept DEF OrderInv
<1>6. CASE Unpublish
  <2>0. /\ cleaner = "invoke" /\ cleaner' \in {"module", "complete"}
        /\ UNCHANGED <<runtimes, pc, next, log>>
    BY <1>6 DEF Unpublish, startVars
  <2>1. /\ Len(todo) > 0 /\ Len(todo) \in Nat /\ todo \in Seq(Modules) /\ Ascending(todo)
        /\ Current \in Modules /\ cleaner = "invoke" /\ OrderInv
    BY <2>0, CurrentTyped DEF Listed, OrderInv
  <2>2. /\ Ascending(todo')
        /\ Len(todo') = Len(todo) - 1
        /\ \A i \in 1..(Len(todo) - 1) : todo'[i] = todo[i] /\ todo[i] < todo[Len(todo)]
    BY <1>6, <2>1, RestAscends DEF Unpublish
  <2>3. cleaner' = "module" => Len(todo') > 0 /\ Current' < Current
    BY <1>6, <2>1, <2>2 DEF Unpublish, Current
  <2>4. Current \in Nat /\ (Len(todo') > 0 => Current' \in Nat) /\ \A i \in 1..Len(log) : log[i][1] \in Nat
    <3>1. \A m \in Modules : m \in Nat
      BY HostAssumption DEF Modules
    <3>2. Len(todo') > 0 => Current' \in Modules
      BY <2>1, <2>2 DEF Current
    <3>3. \A i \in 1..Len(log) : log[i][1] \in Nat
      BY LogTyped DEF Listed
    <3> QED BY <2>1, <3>1, <3>2, <3>3
  <2>5. \A i \in 1..Len(log) : Current <= log[i][1]
    <3>1. \A i \in 1..Len(log) : Current < log[i][1] \/ Current = log[i][1]
      BY <2>1 DEF OrderInv
    <3> QED BY <2>4, <3>1
  <2>6. cleaner' = "module" => \A i \in 1..Len(log) : Current' < log[i][1]
    BY <2>3, <2>4, <2>5
  <2>7. Ascending(todo)'
    BY <2>2 DEF Ascending
  <2> QED BY <2>0, <2>1, <2>3, <2>6, <2>7, OrderKept DEF OrderInv
<1>7. CASE CompleteStartFailure \/ CompleteMigration \/ FinishShutdown
  <2>1. cleaner = "complete" /\ cleaner' = "off" /\ UNCHANGED <<runtimes, next, todo, log>> /\ pc' \in {pc, "finish"}
    BY <1>7 DEF CompleteStartFailure, CompleteMigration, FinishShutdown, Conclude, startVars
  <2>2. pc' \notin Loop /\ (pc' \in {"idle", "validate"} => runtimes' = <<>>)
    BY <1>0, <2>1 DEF Listed, OrderInv
  <2>3. Ascending(runtimes)' /\ Ascending(todo)' /\ CleanupsReversed'
    BY <2>1 DEF Listed, OrderInv, Ascending, CleanupsReversed
  <2> QED BY <2>1, <2>2, <2>3 DEF OrderInv
<1> QED BY <1>1, <1>2, <1>3, <1>4, <1>5, <1>6, <1>7 DEF Cleaner

LEMMA OrderStep == ASSUME Control, Listed, [Next]_vars, Types' PROVE OrderInv'
<1> USE DEF Listed, cleanVars, startVars
<1>1. CASE Start \/ Migrate
  <2>1. runtimes = <<>>
    BY <1>1 DEF Start, Migrate, Begin, Control, Position, OrderInv, Terminal
  <2>2. UNCHANGED <<runtimes, next, cleaner, todo, left, log>>
    BY <1>1 DEF Start, Migrate, Begin
  <2>3. 1..Len(runtimes') = {} /\ runtimes' = <<>>
    BY <2>1, <2>2
  <2>4. cleaner = "off"
    BY <1>1 DEF Start, Migrate, Begin, Control, Position, Terminal
  <2>5. Ascending(runtimes)'
    BY <2>3 DEF Ascending
  <2>6. Ascending(todo)' /\ CleanupsReversed'
    BY <2>2 DEF OrderInv, Ascending, CleanupsReversed
  <2> QED BY <2>2, <2>3, <2>4, <2>5, <2>6 DEF OrderInv
<1>2. CASE CancelStart \/ Assemble \/ Straggle \/ UNCHANGED vars
  BY <1>2, OrderQuiet DEF CancelStart, Assemble, Straggle, vars
<1>3. ASSUME NEW m \in Modules, OnStop(m) \/ Provide(m) PROVE OrderInv'
  BY <1>3, OrderQuiet DEF OnStop, Provide
<1>4. ASSUME NEW k \in Calls, Enter(k) \/ Leave(k) PROVE OrderInv'
  BY <1>4, OrderQuiet DEF Enter, Leave
<1>5. ASSUME NEW k \in Callers, StopRunning(k) PROVE OrderInv'
  <2>1. log = <<>> /\ pc \notin Loop
    BY <1>5 DEF StopRunning, Control, Position, DrainInv, Loop, Ended, Terminal
  <2>2. pc' \notin Loop \cup {"idle"} /\ runtimes' = runtimes /\ log' = log /\ todo' = runtimes /\ cleaner' = "await"
    BY <1>5, <2>1 DEF StopRunning, Control, Position, Terminal, Ended
  <2> QED BY <2>1, <2>2, OrderBegins DEF OrderInv
<1>6. ASSUME NEW k \in Callers, StopStarting(k) \/ CancelByCaller(k) \/ ShutdownElse(k) \/ WaitForShutdown(k)
      PROVE OrderInv'
  BY <1>6, OrderQuiet DEF StopStarting, CancelByCaller, ShutdownElse, WaitForShutdown
<1> QED BY <1>1, <1>2, <1>3, <1>4, <1>5, <1>6, OrderStarter, OrderCleaner DEF Next, Shutdown

-----------------------------------------------------------------------------
LEMMA InAppended ==
    ASSUME NEW S, NEW s \in Seq(S), NEW x \in S, NEW m, In(m, s) \/ m = x
    PROVE  In(m, Append(s, x))
<1>1. /\ Len(Append(s, x)) = Len(s) + 1 /\ Len(s) \in Nat
      /\ Append(s, x)[Len(s) + 1] = x
      /\ \A i \in 1..Len(s) : Append(s, x)[i] = s[i]
  OBVIOUS
<1> QED BY <1>1 DEF In

LEMMA InRest ==
    ASSUME NEW s \in Seq(Modules), Len(s) > 0, NEW m, In(m, s), m # s[Len(s)]
    PROVE  In(m, SubSeq(s, 1, Len(s) - 1))
<1>1. Len(SubSeq(s, 1, Len(s) - 1)) = Len(s) - 1 /\ \A i \in 1..(Len(s) - 1) : SubSeq(s, 1, Len(s) - 1)[i] = s[i]
  BY Rest
<1>2. PICK i \in 1..Len(s) : s[i] = m
  BY DEF In
<1>3. i \in 1..(Len(s) - 1)
  BY <1>2
<1> QED BY <1>1, <1>2, <1>3 DEF In

(* Before the cleanup begins nothing is logged. *)
LEMMA NothingLogged ==
    ASSUME Control, state \in {"new", "running"} \/ pc \in Loop PROVE log = <<>> /\ cleaner = "off" /\ state \notin Terminal
BY DEF Control, Position, DrainInv, Loop, Cleaning, Ended, Terminal

(* Steps that touch nothing a Module registered and no list. *)
LEMMA LeakQuiet ==
    ASSUME Control, LeakInv,
           UNCHANGED <<state, pc, next, runtimes, scope, registered, services, cleaner, todo, left, log>>
    PROVE  LeakInv'
BY DEF LeakInv, Used, In, Logged, Current

(* The cleanup begins with a list of every Module that was used. *)
LEMMA LeakBegins ==
    ASSUME Control, LeakInv, log = <<>>, cleaner' \in {"await", "reset"}, state' \in {"starting", "stopping"},
           pc' \notin Loop, scope' = {}, UNCHANGED <<registered, services, log>>,
           \A m \in Modules : Used(m) => In(m, todo'),
           registered \in [Modules -> 0..MaxCleanups]
    PROVE  LeakInv'
<1>1. \A m \in Modules : \A n \in 1..registered[m] : registered[m] > 0
  BY HostAssumption
<1>2. \A m \in Modules : \A n \in 1..registered[m] : In(m, todo')
  BY <1>1 DEF Used
<1>3. \A m \in services : In(m, todo')
  BY DEF Used, LeakInv
<1> QED BY <1>2, <1>3 DEF LeakInv, Terminal

LEMMA LeakStarter == ASSUME Control, Listed, LeakInv, Starter PROVE LeakInv'
<1>0. /\ pc \in Loop => log = <<>> /\ cleaner = "off" /\ state = "starting"
      /\ registered \in [Modules -> 0..MaxCleanups]
      /\ pc \in Loop \ {"callback"} => scope = {}
  <2>1. pc \in Loop => log = <<>> /\ cleaner = "off" /\ state = "starting"
    BY NothingLogged DEF Control, Position, Loop, Ended, Terminal
  <2>2. pc \in Loop \ {"callback"} => scope = {}
    BY DEF LeakInv
  <2> QED BY <2>1, <2>2 DEF Listed, Types
<1>1. CASE Validate
  <2>1. \A m \in Modules : ~Used(m)
    <3>1. pc = "validate" /\ runtimes = <<>>
      BY <1>1 DEF Validate, Listed, OrderInv
    <3>2. \A m : ~In(m, runtimes)
      BY <3>1 DEF In
    <3>3. \A m \in Modules : Used(m) => In(m, runtimes)
      BY <3>1 DEF LeakInv, Loop
    <3> QED BY <3>2, <3>3
  <2>2. services = {} /\ \A m \in Modules : registered[m] = 0
    <3>1. services \subseteq Modules
      BY Zenon DEF LeakInv
    <3> QED BY <2>1, <3>1, CountsTyped DEF Used
  <2>3. pc = "validate" /\ UNCHANGED <<next, scope, registered, services, runtimes, cleaner, todo, left, log>>
    BY <1>1 DEF Validate, installVars, cleanVars
  <2>4. pc' \in {"check", "finish"} /\ (pc' = "finish" => state' \in Terminal) /\ (pc' = "check" => state' = state)
    BY <1>1 DEF Validate, Conclude, Terminal
  <2>5. scope' = {} /\ services' = {} /\ cleaner' = "off" /\ log' = <<>>
    BY <1>0, <2>2, <2>3 DEF Loop
  <2>6. \A m \in Modules : 1..registered'[m] = {} /\ ~Used(m)'
    BY <2>2, <2>3 DEF Used
  <2>7. 1..Len(log') = {}
    BY <2>5
  <2> QED BY <2>5, <2>6, <2>7 DEF LeakInv, Terminal
<1>2. CASE CheckModule
  <2>0. /\ UNCHANGED <<state, runtimes, registered, services, left, log>> /\ pc = "check"
        /\ \A m \in Modules : Used(m) => In(m, runtimes)
    BY <1>2 DEF CheckModule, LeakInv, Loop
  <2>1. CASE cleaner' = "off"
    <3>1. UNCHANGED <<cleaner, todo>> /\ pc' \in Loop
      BY <1>0, <1>2, <2>1 DEF CheckModule, CleanFrom, Loop
    <3>2. \A m \in scope' : m = next' /\ pc' = "callback"
      BY <1>0, <1>2, <2>1 DEF CheckModule, CleanFrom, Loop
    <3> QED BY <1>0, <2>0, <2>1, <3>1, <3>2 DEF LeakInv, Loop, Used, In, Terminal
  <2>2. CASE cleaner' = "reset"
    <3>1. scope' = {} /\ pc' = "cleanFailure"
      BY <1>0, <1>2, <2>2 DEF CheckModule, CleanFrom, Loop
    <3>2. \A m \in Modules : Used(m) => In(m, todo')
      <4>1. CASE todo' = runtimes
        BY <2>0, <4>1
      <4>2. CASE next \in Modules /\ todo' = Append(runtimes, next)
        BY <2>0, <4>2, InAppended DEF Listed, Types
      <4>3. next \in Nat /\ next >= 1 /\ N \in Nat
        BY HostAssumption DEF Listed, Types
      <4>4. next <= N => next \in Modules
        BY <4>3 DEF Modules
      <4>5. todo' = runtimes \/ (next <= N /\ todo' = Append(runtimes, next))
        BY <1>0, <1>2, <2>2 DEF CheckModule, CleanFrom, Loop
      <4> QED BY <4>1, <4>2, <4>4, <4>5
    <3> QED BY <1>0, <2>0, <2>2, <3>1, <3>2, LeakBegins DEF Loop
  <2> QED BY <1>0, <1>2, <2>1, <2>2 DEF CheckModule, CleanFrom, Loop
<1>3. CASE StartCallback
  <2>0. /\ UNCHANGED <<state, next, runtimes, registered, services, left, log>> /\ pc = "callback" /\ scope' = {}
        /\ \A m \in Modules : Used(m) => In(m, runtimes) \/ m = next
        /\ next \in Modules
    BY <1>3 DEF StartCallback, LeakInv, Loop, Listed, Types
  <2>1. CASE pc' = "bind"
    BY <1>0, <1>3, <2>0, <2>1 DEF StartCallback, CleanFrom, LeakInv, Loop, Used, In, Terminal
  <2>2. CASE pc' = "cleanFailure"
    <3>1. todo' = Append(runtimes, next) /\ cleaner' = "reset"
      BY <1>3, <2>2 DEF StartCallback, CleanFrom
    <3>2. \A m \in Modules : Used(m) => In(m, todo')
      BY <2>0, <3>1, InAppended DEF Listed, Types
    <3> QED BY <1>0, <2>0, <2>2, <3>1, <3>2, LeakBegins DEF Loop
  <2> QED BY <1>3, <2>1, <2>2 DEF StartCallback, CleanFrom
<1>4. CASE Bind
  <2>0. /\ UNCHANGED <<state, scope, registered, services, left, log>> /\ pc = "bind" /\ scope = {}
        /\ \A m \in Modules : Used(m) => In(m, runtimes) \/ m = next
        /\ next \in Modules
    BY <1>0, <1>4 DEF Bind, LeakInv, Loop, Listed, Types, installVars
  <2>1. \A m \in Modules : Used(m) => In(m, Append(runtimes, next))
    BY <2>0, InAppended DEF Listed, Types
  <2>2. CASE pc' = "check"
    <3>1. UNCHANGED <<cleaner, todo>> /\ runtimes' = Append(runtimes, next)
      BY <1>4, <2>2 DEF Bind, CleanFrom
    <3>2. \A m \in Modules : Used(m)' => In(m, runtimes')
      BY <2>0, <2>1, <3>1 DEF Used
    <3> QED BY <1>0, <2>0, <2>2, <3>1, <3>2 DEF LeakInv, Loop, Terminal
  <2>3. CASE pc' = "cleanFailure"
    BY <1>0, <1>4, <2>0, <2>1, <2>3, LeakBegins DEF Bind, CleanFrom, Loop
  <2> QED BY <1>4, <2>2, <2>3 DEF Bind, CleanFrom
<1>5. CASE ApplyMigrations
  <2>1. \A m \in Modules : Used(m) => In(m, runtimes)
    BY <1>5 DEF ApplyMigrations, LeakInv, Loop
  <2> QED BY <1>0, <1>5, <2>1, LeakBegins DEF ApplyMigrations, Loop, installVars
<1>6. CASE Final
  <2>0. /\ UNCHANGED <<next, runtimes, scope, registered, services, left, log>> /\ pc = "final" /\ scope = {}
        /\ \A m \in Modules : Used(m) => In(m, runtimes)
    BY <1>0, <1>6 DEF Final, LeakInv, Loop, installVars
  <2>1. CASE pc' = "finish"
    <3>1. state' = "running" /\ UNCHANGED <<cleaner, todo>>
      BY <1>6, <2>1 DEF Final, CleanFrom
    <3> QED BY <1>0, <2>0, <2>1, <3>1 DEF LeakInv, Loop, Used, In, Terminal
  <2>2. CASE pc' = "cleanFailure"
    BY <1>0, <1>6, <2>0, <2>2, LeakBegins DEF Final, CleanFrom, Loop
  <2> QED BY <1>6, <2>1, <2>2 DEF Final, CleanFrom
<1>7. CASE FinishStart
  BY <1>7 DEF FinishStart, LeakInv, Loop, installVars, cleanVars, Used, In, Logged, Current
<1> QED BY <1>1, <1>2, <1>3, <1>4, <1>5, <1>6, <1>7 DEF Starter

LEMMA LeakCleaner == ASSUME Control, Listed, LeakInv, Cleaner, Types' PROVE LeakInv'
<1>0. cleaner # "off" => state \in {"starting", "stopping"} /\ pc \notin Loop /\ scope = {} /\ state \notin Terminal
  BY DEF Control, Position, Loop, Ended, Terminal, LeakInv
<1>1. CASE AwaitDrained
  BY <1>1, <1>0 DEF AwaitDrained, LeakInv, installVars, startVars, Logged, In, Loop
<1>2. CASE ResetRegistry
  <2>1. cleaner' \in {"module", "complete"} /\ (cleaner' = "complete" => Len(todo) = 0)
    BY <1>2 DEF ResetRegistry
  <2> QED BY <1>2, <1>0, <2>1 DEF ResetRegistry, LeakInv, installVars, startVars, Logged, In
<1>3. CASE BeginCleanup
  <2>1. Current \in Modules /\ Current' = Current /\ left' = registered[Current] /\ registered[Current] \in Nat
    <3>1. cleaner = "module" /\ todo' = todo /\ left' = registered[Current]
      BY <1>3 DEF BeginCleanup
    <3>2. Current' = Current /\ Current \in Modules
      BY <3>1, CurrentTyped DEF Current
    <3> QED BY <3>1, <3>2, CountsTyped
  <2>2. /\ UNCHANGED <<state, pc, next, runtimes, scope, registered, services, todo, log>>
        /\ cleaner = "module" /\ cleaner' = "invoke"
    BY <1>3 DEF BeginCleanup, installVars, startVars
  <2>3. \A m \in Modules : \A n \in 1..registered[m] : m = Current => n <= left'
    BY <2>1
  <2>4. \A m \in Modules : \A n \in 1..registered[m] : Logged(m, n) \/ In(m, todo)
    BY <2>2 DEF LeakInv
  <2>5. (\A m, n : Logged(m, n)' <=> Logged(m, n)) /\ (\A m : In(m, todo)' <=> In(m, todo))
    BY <2>2 DEF Logged, In
  <2>6. /\ \A m \in services : In(m, todo)
        /\ \A i \in 1..Len(log) : log[i][2] <= registered[log[i][1]]
        /\ services \subseteq Modules
    BY <2>2 DEF LeakInv
  <2>7. left' <= registered[Current]
    BY <2>1
  <2> QED BY <1>0, <2>1, <2>2, <2>3, <2>4, <2>5, <2>6, <2>7 DEF LeakInv
<1>4. CASE InvokeCleanup
  <2>1. Current' = Current /\ log \in Seq(Cleanups) /\ <<Current, left>> \in Cleanups /\ Current \in Modules
    <3>1. cleaner = "invoke" /\ left > 0 /\ todo' = todo
      BY <1>4 DEF InvokeCleanup
    <3>2. Current' = Current /\ Current \in Modules
      BY <3>1, CurrentTyped DEF Current
    <3>3. left \in 1..MaxCleanups
      BY <3>1, CountsTyped
    <3> QED BY <3>2, <3>3, LogSequence DEF Cleanups
  <2>2. Logged(Current, left)' /\ \A m, n : Logged(m, n) => Logged(m, n)'
    <3>1. log' = Append(log, <<Current, left>>) /\ left' = left
      BY <1>4 DEF InvokeCleanup
    <3> QED BY <2>1, <3>1, InAppended DEF Logged
  <2>3. \A i \in 1..Len(log') : log'[i][2] <= registered[log'[i][1]]
    <3>1. /\ Len(log') = Len(log) + 1
          /\ log'[Len(log) + 1] = <<Current, left>>
          /\ \A i \in 1..Len(log) : log'[i] = log[i]
      BY <1>4, <2>1 DEF InvokeCleanup
    <3>2. left <= registered[Current] /\ \A i \in 1..Len(log) : log[i][2] <= registered[log[i][1]]
      BY <1>4 DEF InvokeCleanup, LeakInv
    <3>3. \A i \in 1..(Len(log) + 1) : i \in 1..Len(log) \/ i = Len(log) + 1
      BY <2>1
    <3> QED BY <3>1, <3>2, <3>3
  <2>4. /\ UNCHANGED <<state, pc, next, runtimes, scope, registered, services, todo, left>>
        /\ cleaner = "invoke" /\ cleaner' = "wait"
    BY <1>4 DEF InvokeCleanup, installVars, startVars
  <2> QED BY <1>0, <2>1, <2>2, <2>3, <2>4 DEF LeakInv, In
<1>5. CASE AwaitCleanup
  <2>1. /\ UNCHANGED <<state, pc, next, runtimes, scope, registered, services, todo, log>>
        /\ cleaner = "wait" /\ cleaner' = "invoke" /\ left' = left - 1 /\ left \in Nat /\ Current' = Current
    BY <1>5, CountsTyped DEF AwaitCleanup, installVars, startVars, Current
  <2>2. Current \in Modules /\ registered[Current] \in Nat
    BY <2>1, CurrentTyped, CountsTyped
  <2>3. left' <= registered[Current]
    <3>1. left <= registered[Current]
      BY Zenon, <2>1 DEF LeakInv
    <3> QED BY <2>1, <2>2, <3>1
  <2>4. ASSUME NEW m \in Modules, NEW n \in 1..registered[m], ~Logged(m, n)
        PROVE  In(m, todo) /\ (m = Current => n <= left')
    <3>1. In(m, todo) /\ (m = Current => n <= left)
      BY <2>1, <2>4 DEF LeakInv
    <3>2. m = Current => n # left
      BY <2>1, <2>4 DEF LeakInv
    <3> QED BY <2>1, <3>1, <3>2
  <2> QED BY <1>0, <2>1, <2>3, <2>4 DEF LeakInv, In, Logged
<1>6. CASE Unpublish
  <2>1. /\ UNCHANGED <<state, pc, next, runtimes, scope, registered, left, log>>
        /\ cleaner = "invoke" /\ left = 0 /\ services' = services \ {Current}
        /\ todo' = SubSeq(todo, 1, Len(todo) - 1)
        /\ cleaner' = (IF Len(todo) = 1 THEN "complete" ELSE "module")
    BY <1>6 DEF Unpublish, installVars, startVars
  <2>2. todo \in Seq(Modules) /\ Len(todo) > 0 /\ Len(todo') = Len(todo) - 1
    BY <2>1, Rest DEF Listed, Types, OrderInv
  <2>3. \A m \in services' : In(m, todo')
    BY <2>1, <2>2, InRest DEF LeakInv, Current
  <2>4. ASSUME NEW m \in Modules, NEW n \in 1..registered[m], ~Logged(m, n)
        PROVE  In(m, todo')
    <3>1. In(m, todo) /\ (m = Current => n <= 0)
      BY <2>1, <2>4 DEF LeakInv
    <3>2. m # Current
      BY <3>1
    <3> QED BY <2>1, <2>2, <3>1, <3>2, InRest DEF Current
  <2>5. cleaner' = "complete" => Len(todo') = 0
    BY <2>1, <2>2
  <2> QED BY <1>0, <2>1, <2>3, <2>4, <2>5 DEF LeakInv, Logged
<1>7. CASE CompleteStartFailure \/ CompleteMigration \/ FinishShutdown
  <2>1. /\ UNCHANGED <<next, runtimes, scope, registered, services, todo, left, log>>
        /\ cleaner = "complete" /\ cleaner' = "off" /\ state' \in Terminal /\ pc' \in {pc, "finish"}
    BY <1>7 DEF CompleteStartFailure, CompleteMigration, FinishShutdown, Conclude, installVars, startVars, Terminal
  <2>2. services = {} /\ \A m \in Modules : \A n \in 1..registered[m] : Logged(m, n)
    <3>1. /\ Len(todo) = 0
          /\ \A m \in services : In(m, todo)
          /\ \A m \in Modules : \A n \in 1..registered[m] : Logged(m, n) \/ In(m, todo)
      BY Zenon, <2>1 DEF LeakInv
    <3>2. \A m : ~In(m, todo)
      BY <3>1 DEF In
    <3> QED BY Zenon, <3>1, <3>2
  <2> QED BY <1>0, <2>1, <2>2 DEF LeakInv, Logged, In, Loop, Terminal
<1> QED BY <1>1, <1>2, <1>3, <1>4, <1>5, <1>6, <1>7 DEF Cleaner

LEMMA LeakStep == ASSUME Control, Listed, LeakInv, [Next]_vars, Types' PROVE LeakInv'
<1> USE DEF cleanVars, startVars, installVars
<1>1. CASE Start \/ Migrate
  <2>1. state = "new" /\ state' = "starting" /\ pc = "idle" /\ pc' = "validate"
        /\ UNCHANGED <<next, runtimes, scope, registered, services, cleaner, todo, left, log>>
    BY <1>1 DEF Start, Migrate, Begin, Control, Position, Terminal
  <2>2. cleaner = "off"
    BY <2>1, NothingLogged
  <2> QED BY <2>1, <2>2 DEF LeakInv, Loop, Used, In, Terminal, Logged
<1>2. CASE CancelStart \/ Assemble \/ Straggle \/ UNCHANGED vars
  BY <1>2, LeakQuiet DEF CancelStart, Assemble, Straggle, vars
<1>3. ASSUME NEW m \in Modules, OnStop(m) \/ Provide(m) PROVE LeakInv'
  <2>1. m = next /\ pc = "callback" /\ state = "starting" /\ log = <<>> /\ cleaner = "off"
    BY <1>3, NothingLogged DEF OnStop, Provide, LeakInv, Loop
  <2>2. /\ UNCHANGED <<state, pc, next, runtimes, scope, cleaner, todo, left, log>>
        /\ services' \subseteq services \cup {m}
        /\ \A x \in Modules : x # m => registered'[x] = registered[x]
    BY <1>3 DEF OnStop, Provide, Listed, Types
  <2>3. \A x \in Modules : Used(x)' => In(x, runtimes) \/ x = next
    BY <2>1, <2>2 DEF Used, LeakInv, Loop
  <2>4. services' \subseteq Modules /\ \A x \in scope' : x = next' /\ pc' = "callback"
    BY <2>2 DEF LeakInv
  <2>5. \A x \in Modules : Used(x)' => In(x, runtimes') \/ x = next'
    BY <2>2, <2>3
  <2>6. cleaner' = "off" /\ log' = <<>> /\ state' = "starting" /\ pc' = "callback"
    BY <2>1, <2>2
  <2>7. 1..Len(log') = {}
    BY <2>6
  <2> QED BY <2>4, <2>5, <2>6, <2>7 DEF LeakInv, Loop, Terminal
<1>4. ASSUME NEW k \in Calls, Enter(k) \/ Leave(k) PROVE LeakInv'
  BY <1>4, LeakQuiet DEF Enter, Leave
<1>5. ASSUME NEW k \in Callers, StopRunning(k) PROVE LeakInv'
  <2>1. /\ state = "running" /\ state' = "stopping" /\ todo' = runtimes /\ cleaner' = "await"
        /\ UNCHANGED <<pc, scope, registered, services, log>>
    BY <1>5 DEF StopRunning
  <2>2. pc \notin Loop /\ log = <<>> /\ scope = {}
    BY <2>1, NothingLogged DEF Control, Position, Loop, Ended, Terminal, LeakInv
  <2>3. \A m \in Modules : Used(m) => In(m, todo')
    BY <2>1 DEF LeakInv
  <2> QED BY <2>1, <2>2, <2>3, LeakBegins DEF Listed, Types
<1>6. ASSUME NEW k \in Callers, StopStarting(k) \/ CancelByCaller(k) \/ ShutdownElse(k) \/ WaitForShutdown(k)
      PROVE LeakInv'
  BY <1>6, LeakQuiet DEF StopStarting, CancelByCaller, ShutdownElse, WaitForShutdown
<1> QED BY <1>1, <1>2, <1>3, <1>4, <1>5, <1>6, LeakStarter, LeakCleaner DEF Next, Shutdown

-----------------------------------------------------------------------------
(* A step that leaves the cleanup and the end of the Host alone. *)
LEMMA NilQuiet ==
    ASSUME NilInv, UNCHANGED <<cleaner, todo, left, cleanErr, doneCloses, shutdownErr>>,
           running' \subseteq running,
           state \in Terminal => state' \in Terminal,
           state' \in Terminal => state \in Terminal,
           startDone' => pc' = "returned",
           caller' \in [Callers -> CallerLabels],
           \A k \in Callers : caller'[k] \in {"cancel", "waitStart"} => stopRequested',
           \A k \in Callers : caller'[k] = "nil" => state \in Terminal /\ ~cleanErr
    PROVE  NilInv'
<1>1. cleanErr' = cleanErr /\ shutdownErr' = shutdownErr
  OBVIOUS
<1>2. (cleaner' = "off" => ~cleanErr' \/ state' \in Terminal) /\ (state' \in Terminal /\ ~shutdownErr' => ~cleanErr')
  BY Zenon DEF NilInv
<1>3. ~cleanErr' => \A c \in running' : cleaner' = "wait" /\ c = <<Current', left'>>
  BY DEF NilInv, Current
<1>4. \A k \in Callers : caller'[k] = "nil" => state' \in Terminal /\ ~cleanErr'
  BY Zenon
<1> QED BY <1>2, <1>3, <1>4 DEF NilInv

(* Nor does it move the callers or the starting goroutine. *)
LEMMA NilStill ==
    ASSUME NilInv, UNCHANGED <<cleaner, todo, left, cleanErr, doneCloses, shutdownErr, stopRequested, caller>>,
           running' \subseteq running, startDone' => pc' = "returned",
           state' = state \/ (state \notin Terminal /\ state' \notin Terminal)
    PROVE  NilInv'
<1>1. caller' \in [Callers -> CallerLabels]
  BY Zenon DEF NilInv
<1>2. \A k \in Callers : caller'[k] \in {"cancel", "waitStart"} => stopRequested'
  BY Zenon DEF NilInv
<1>3. \A k \in Callers : caller'[k] = "nil" => state \in Terminal /\ ~cleanErr
  BY Zenon DEF NilInv
<1>4. (state \in Terminal => state' \in Terminal) /\ (state' \in Terminal => state \in Terminal)
  OBVIOUS
<1> QED BY <1>1, <1>2, <1>3, <1>4, NilQuiet

(* While the Host starts nothing has gone wrong in a cleanup yet. *)
LEMMA NilStarter == ASSUME Control, NilInv, Starter PROVE NilInv'
<1>0. pc \in Loop => /\ state = "starting" /\ cleaner = "off" /\ state \notin Terminal
                     /\ ~cleanErr /\ running = {} /\ doneCloses = 0 /\ ~startDone
                     /\ \A k \in Callers : caller[k] # "nil"
  BY DEF Control, Position, Loop, Ended, Terminal, NilInv
<1>1. CASE Validate
  <2>1. CASE pc' = "check"
    BY <1>0, <1>1, <2>1, NilQuiet DEF Validate, Conclude, cleanVars, endVars, Loop, NilInv
  <2>2. CASE pc' = "finish"
    <3>1. /\ pc = "validate" /\ state' \in Terminal /\ doneCloses' = 1 /\ cleaner' = "off" /\ running' = {}
          /\ UNCHANGED <<startDone, stopRequested, caller>>
      BY <1>0, <1>1, <2>2 DEF Validate, Conclude, cleanVars, Loop, Terminal
    <3>2. ~cleanErr' /\ ~startDone'
      BY Zenon, <1>0, <1>1 DEF Validate, cleanVars, Loop
    <3>3. \A k \in Callers : caller'[k] # "nil"
      BY <1>0, <3>1 DEF Loop
    <3> QED BY <3>1, <3>2, <3>3 DEF NilInv
  <2> QED BY <1>1, <2>1, <2>2 DEF Validate, Conclude
<1>2. CASE CheckModule \/ StartCallback \/ Bind \/ ApplyMigrations \/ Final
  <2>1. /\ pc \in Loop /\ state' \notin Terminal
        /\ UNCHANGED <<left, running, doneCloses, shutdownErr, startDone, stopRequested, caller>>
    BY <1>0, <1>2 DEF CheckModule, StartCallback, Bind, ApplyMigrations, Final, endVars, Loop, Terminal
  <2>2. cleanErr' = cleanErr
    BY <1>2 DEF CheckModule, StartCallback, Bind, ApplyMigrations, Final
  <2>3. ~cleanErr' /\ ~startDone'
    BY Zenon, <1>0, <2>1, <2>2
  <2> QED BY <1>0, <2>1, <2>3 DEF NilInv
<1>3. CASE FinishStart
  BY <1>3, NilQuiet DEF FinishStart, cleanVars, endVars, NilInv
<1> QED BY <1>1, <1>2, <1>3 DEF Starter

LEMMA NilCleaner == ASSUME Control, NilInv, Cleaner PROVE NilInv'
<1>0. cleaner # "off" => /\ state \notin Terminal /\ doneCloses = 0
                         /\ \A k \in Callers : caller[k] # "nil"
  BY DEF Control, Position, Terminal, NilInv, Loop, Ended, Cleaning
<1>1. CASE AwaitDrained \/ ResetRegistry \/ BeginCleanup \/ Unpublish
  <2>1. /\ cleaner \notin {"off", "wait"} /\ cleaner' # "off"
        /\ UNCHANGED <<state, pc, startDone, stopRequested, running, doneCloses, shutdownErr, caller>>
    BY <1>1 DEF AwaitDrained, ResetRegistry, BeginCleanup, Unpublish, startVars, endVars
  <2>2. cleanErr' = cleanErr
    BY <1>1 DEF AwaitDrained, ResetRegistry, BeginCleanup, Unpublish
  <2>3. ~cleanErr' => running' = {}
    <3>1. ~cleanErr => running = {}
      BY <2>1 DEF NilInv
    <3> QED BY Zenon, <2>1, <2>2, <3>1
  <2> QED BY <1>0, <2>1, <2>3 DEF NilInv
<1>2. CASE InvokeCleanup
  <2>1. /\ cleaner = "invoke" /\ cleaner' = "wait" /\ Current' = Current /\ left' = left
        /\ running' = running \cup {<<Current, left>>}
        /\ UNCHANGED <<state, pc, startDone, stopRequested, doneCloses, shutdownErr, caller>>
    BY <1>2 DEF InvokeCleanup, Current, startVars, endVars
  <2>2. ~cleanErr' => running = {}
    <3>1. ~cleanErr => running = {}
      BY <2>1 DEF NilInv
    <3>2. cleanErr' = cleanErr
      BY <1>2 DEF InvokeCleanup
    <3> QED BY Zenon, <3>1, <3>2
  <2> QED BY <1>0, <2>1, <2>2 DEF NilInv
<1>3. CASE AwaitCleanup
  <2>1. /\ cleaner = "wait" /\ cleaner' = "invoke"
        /\ UNCHANGED <<state, pc, startDone, stopRequested, doneCloses, shutdownErr, caller>>
    BY <1>3 DEF AwaitCleanup, startVars, endVars
  <2>2. ~cleanErr' => ~cleanErr /\ running' = running \ {<<Current, left>>}
    <3>1. CASE cleanErr' = TRUE
      BY <3>1
    <3>2. CASE cleanErr' = cleanErr /\ running' = running \ {<<Current, left>>}
      BY Zenon, <3>2
    <3> QED BY <1>3, <3>1, <3>2 DEF AwaitCleanup
  <2>3. ~cleanErr' => running' = {}
    BY <2>1, <2>2 DEF NilInv
  <2> QED BY <1>0, <2>1, <2>3 DEF NilInv
<1>4. CASE CompleteStartFailure \/ CompleteMigration \/ FinishShutdown
  <2>1. /\ cleaner = "complete" /\ cleaner' = "off" /\ state' \in Terminal
        /\ doneCloses' \in {1, doneCloses + 1}
        /\ UNCHANGED <<startDone, stopRequested, running, caller>>
        /\ pc' = pc \/ pc \in {"cleanFailure", "cleanMigration"}
    BY <1>0, <1>4 DEF CompleteStartFailure, CompleteMigration, FinishShutdown, Conclude, startVars, Terminal
  <2>2. shutdownErr' = cleanErr /\ cleanErr' = cleanErr
    BY <1>4 DEF CompleteStartFailure, CompleteMigration, FinishShutdown, Conclude
  <2>3. ~shutdownErr' => ~cleanErr'
    BY Zenon, <2>2
  <2>4. ~cleanErr' => running' = {}
    <3>1. ~cleanErr => running = {}
      BY <2>1 DEF NilInv
    <3> QED BY Zenon, <2>1, <2>2, <3>1
  <2>5. startDone' => pc' = "returned"
    <3>1. startDone => pc = "returned"
      BY DEF NilInv
    <3>2. startDone => pc' = "returned"
      BY <2>1, <3>1
    <3> QED BY Zenon, <2>1, <3>2
  <2> QED BY <1>0, <2>1, <2>3, <2>4, <2>5 DEF NilInv
<1> QED BY <1>1, <1>2, <1>3, <1>4 DEF Cleaner

LEMMA NilStep == ASSUME Control, NilInv, [Next]_vars PROVE NilInv'
<1> USE DEF cleanVars, startVars, endVars
<1>0. startDone => pc = "returned"
  BY DEF NilInv
<1>1. CASE Start \/ Migrate
  <2>1. ~startDone
    BY <1>0, <1>1 DEF Start, Migrate, Begin, Control, Position, Terminal
  <2>2. startDone' = startDone
    BY <1>1 DEF Start, Migrate, Begin
  <2>3. ~startDone'
    BY Zenon, <2>1, <2>2
  <2>4. /\ UNCHANGED <<cleaner, todo, left, cleanErr, doneCloses, shutdownErr, stopRequested, caller>>
        /\ running' = running /\ state = "new" /\ state' = "starting"
    BY <1>1 DEF Start, Migrate, Begin
  <2> QED BY <2>3, <2>4, NilStill DEF Terminal
<1>2. ASSUME UNCHANGED <<cleaner, todo, left, cleanErr, doneCloses, shutdownErr, stopRequested, caller>>,
             running' \subseteq running, UNCHANGED <<state, pc, startDone>>
      PROVE  NilInv'
  <2>1. startDone' => pc' = "returned"
    BY Zenon, <1>0, <1>2
  <2> QED BY <1>2, <2>1, NilStill
<1>3. CASE CancelStart \/ Assemble \/ Straggle \/ UNCHANGED vars
  BY <1>2, <1>3 DEF CancelStart, Assemble, Straggle, vars
<1>4. ASSUME (\E m \in Modules : OnStop(m) \/ Provide(m)) \/ (\E k \in Calls : Enter(k) \/ Leave(k)) PROVE NilInv'
  BY <1>2, <1>4 DEF OnStop, Provide, Enter, Leave
<1>5. ASSUME NEW k \in Callers, StopRunning(k) PROVE NilInv'
  <2>1. /\ state = "running" /\ state' = "stopping" /\ cleaner = "off" /\ cleaner' = "await"
        /\ caller' = [caller EXCEPT ![k] = "waitDone"]
        /\ UNCHANGED <<pc, startDone, stopRequested, running, doneCloses, shutdownErr>>
    BY <1>5 DEF StopRunning, Control, Position, Terminal
  <2>2. ~cleanErr' => running' = {}
    <3>1. ~cleanErr => running = {}
      BY <2>1 DEF NilInv
    <3>2. cleanErr' = cleanErr /\ running' = running
      BY <1>5 DEF StopRunning
    <3> QED BY Zenon, <3>1, <3>2
  <2>3. \A j \in Callers : caller[j] # "nil" /\ caller[j] \notin {"cancel", "waitStart"}
    BY <2>1 DEF NilInv, Terminal, Control, StopInv
  <2> QED BY <2>1, <2>2, <2>3 DEF NilInv, Terminal, CallerLabels
<1>6. ASSUME NEW k \in Callers, StopStarting(k) \/ CancelByCaller(k) PROVE NilInv'
  <2>1. caller \in [Callers -> CallerLabels] /\ \A j \in Callers : caller[j] = "nil" => state \in Terminal /\ ~cleanErr
    BY DEF NilInv
  <2>2. \A j \in Callers : caller[j] \in {"cancel", "waitStart"} => stopRequested
    BY DEF NilInv
  <2>3. stopRequested' /\ UNCHANGED <<state, pc, startDone, cleanVars, endVars>>
    <3>1. CASE StopStarting(k)
      BY <3>1 DEF StopStarting
    <3>2. CASE CancelByCaller(k)
      <4>1. stopRequested /\ stopRequested' = stopRequested
        BY <2>2, <3>2 DEF CancelByCaller
      <4>2. stopRequested'
        BY Zenon, <4>1
      <4> QED BY <3>2, <4>2 DEF CancelByCaller
    <3> QED BY <1>6, <3>1, <3>2
  <2>4. PICK l \in {"cancel", "waitStart"} : caller' = [caller EXCEPT ![k] = l]
    BY <1>6 DEF StopStarting, CancelByCaller
  <2> QED BY <1>0, <2>1, <2>3, <2>4, NilQuiet DEF CallerLabels
<1>7. ASSUME NEW k \in Callers, ShutdownElse(k) \/ WaitForShutdown(k) PROVE NilInv'
  <2>1. UNCHANGED <<state, pc, startDone, stopRequested, cleanVars, endVars>>
    BY <1>7 DEF ShutdownElse, WaitForShutdown
  <2>2. PICK l \in {"waitDone", "nil", "error", "refused", "context"} : caller' = [caller EXCEPT ![k] = l]
    BY <1>7 DEF ShutdownElse, WaitForShutdown, Answer
  <2>3. l = "nil" => ~shutdownErr /\ state \in Terminal
    <3>1. l = "nil" => ~shutdownErr
      BY <1>7, <2>2 DEF ShutdownElse, WaitForShutdown, Answer, NilInv, CallerLabels
    <3>2. l = "nil" => state \in Terminal
      <4>1. CASE l = "nil" /\ caller[k] = "waitStart" /\ startDone
        BY <1>0, <4>1 DEF NilInv, Control, Position, StopInv, Loop, Terminal
      <4>2. CASE l = "nil" /\ doneCloses > 0
        BY <4>2 DEF NilInv
      <4>3. CASE l = "nil" /\ state \in Terminal
        BY <4>3
      <4> QED BY <1>7, <2>2, <4>1, <4>2, <4>3 DEF ShutdownElse, WaitForShutdown, DoneFor, NilInv, CallerLabels
    <3> QED BY <3>1, <3>2
  <2>4. \A j \in Callers : caller'[j] = "nil" => state \in Terminal /\ ~cleanErr
    BY <2>2, <2>3 DEF NilInv
  <2> QED BY <1>0, <2>1, <2>2, <2>4, NilQuiet DEF NilInv, CallerLabels
<1> QED BY <1>1, <1>2, <1>3, <1>4, <1>5, <1>6, <1>7, NilStarter, NilCleaner DEF Next, Shutdown

-----------------------------------------------------------------------------
LEMMA Invariance == Spec => []IInv
<1>1. ASSUME IInv, [Next]_vars PROVE IInv'
  <2>1. Control /\ Listed /\ LeakInv /\ NilInv /\ todo \in Seq(Modules)
    BY <1>1 DEF IInv, Control, Listed, Types
  <2>2. Types'
    BY <1>1, <2>1, TypesStep
  <2>3. Control' /\ OrderInv' /\ LeakInv' /\ NilInv'
    BY <1>1, <2>1, <2>2, ControlStep, OrderStep, LeakStep, NilStep
  <2> QED BY <2>2, <2>3 DEF IInv, Control
<1> QED BY <1>1, InitIInv, PTL DEF Spec

(* A Shutdown "revokes and drains every assembled facade before Module     *)
(* cleanup", and the cleanups begin in reverse order, for any number of    *)
(* Modules, registrations, facade calls and callers.                       *)
THEOREM CleansLast == Spec => []CleansInOrder
<1>1. IInv => CleansInOrder
  BY DEF IInv, DrainInv, OrderInv, CleansInOrder, CleanupAfterDrain
<1> QED BY <1>1, Invariance, PTL

(* A Host that has ended has run every cleanup it accepted and published   *)
(* nothing any more, and nil from Shutdown means that it has ended without *)
(* an error and without a callback left behind.                            *)
THEOREM EndIsClean == Spec => []EndsClean
<1>1. ASSUME IInv, state \in Terminal
      PROVE  {log[i] : i \in 1..Len(log)} = {c \in Cleanups : c[2] <= registered[c[1]]}
  <2>1. ASSUME NEW i \in 1..Len(log) PROVE log[i] \in Cleanups /\ log[i][2] <= registered[log[i][1]]
    <3>1. Types /\ log \in Seq(Cleanups) /\ log[i][2] <= registered[log[i][1]]
      BY Zenon, <1>1 DEF IInv, Types, LeakInv
    <3> QED BY <3>1
  <2>2. ASSUME NEW c \in Cleanups, c[2] <= registered[c[1]] PROVE \E i \in 1..Len(log) : log[i] = c
    <3>1. c[1] \in Modules /\ c[2] \in 1..MaxCleanups /\ c = <<c[1], c[2]>>
      BY DEF Cleanups
    <3>2. registered[c[1]] \in Nat
      BY <1>1, <3>1, HostAssumption DEF IInv, Types
    <3>3. c[2] \in 1..registered[c[1]]
      BY <2>2, <3>1, <3>2, HostAssumption
    <3>4. Logged(c[1], c[2])
      BY <1>1, <3>1, <3>3 DEF IInv, LeakInv
    <3> QED BY <3>1, <3>4 DEF Logged, In
  <2> QED BY <2>1, <2>2
<1>2. IInv => NothingLeaks
  BY <1>1 DEF IInv, LeakInv, NothingLeaks
<1>3. IInv => NilMeansClean
  <2> SUFFICES ASSUME IInv, NEW k \in Callers, caller[k] = "nil"
               PROVE  state \in Terminal /\ ~cleanErr /\ running = {}
    BY <1>1 DEF NilMeansClean
  <2>1. state \in Terminal /\ ~cleanErr
    BY DEF IInv, NilInv
  <2>2. cleaner = "off"
    BY <2>1 DEF IInv, Position, Terminal
  <2> QED BY <2>1, <2>2 DEF IInv, NilInv
<1> QED BY <1>2, <1>3, Invariance, PTL DEF EndsClean

(* A Host that was asked to stop while it started never runs, and one that *)
(* has ended never moves again.                                            *)
THEOREM StopIsFinal == Spec => StopWins
<1> DEFINE Wins == /\ stopRequested => state' # "running"
                   /\ state \in Terminal => state' = state /\ shutdownErr' = shutdownErr /\ log' = log
<1>1. ASSUME IInv, Next PROVE Wins
  <2> USE DEF Terminal, endVars, cleanVars, startVars
  <2>0. /\ stopRequested => state # "running"
        /\ state \in Terminal => pc \in Ended /\ cleaner = "off"
    BY <1>1 DEF IInv, Position, StopInv
  <2>1. CASE Start \/ Migrate \/ CancelStart \/ Assemble \/ Straggle
    BY <2>0, <2>1 DEF Start, Migrate, Begin, CancelStart, Assemble, Straggle
  <2>2. ASSUME NEW m \in Modules, OnStop(m) \/ Provide(m) PROVE Wins
    BY <2>0, <2>2 DEF OnStop, Provide
  <2>3. ASSUME NEW k \in Calls, Enter(k) \/ Leave(k) PROVE Wins
    BY <2>0, <2>3 DEF Enter, Leave
  <2>4. ASSUME NEW k \in Callers, Shutdown(k) PROVE Wins
    BY <2>0, <2>4 DEF Shutdown, StopRunning, StopStarting, CancelByCaller, ShutdownElse, WaitForShutdown
  <2>5. CASE Starter
    BY <2>0, <2>5 DEF Starter, Validate, CheckModule, StartCallback, Bind, ApplyMigrations, Final, FinishStart,
        CleanFrom, Conclude, Ended
  <2>6. CASE Cleaner
    BY <2>0, <2>6 DEF Cleaner, AwaitDrained, ResetRegistry, BeginCleanup, InvokeCleanup, AwaitCleanup, Unpublish,
        CompleteStartFailure, CompleteMigration, FinishShutdown, Conclude
  <2> QED BY <1>1, <2>1, <2>2, <2>3, <2>4, <2>5, <2>6 DEF Next
<1>2. IInv /\ [Next]_vars => [Wins]_vars
  BY <1>1
<1> QED BY <1>2, Invariance, PTL DEF Spec, StopWins
=============================================================================
