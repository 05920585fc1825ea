---------------------- MODULE TransactionBoundaryProofs ----------------------
(***************************************************************************)
(* The transaction boundary for any number of goroutines that may call the *)
(* callback and any number of nested transactions.                         *)
(***************************************************************************)
EXTENDS TransactionBoundary, TLAPS

Active(i) == inv[i] \in {"running", "ended", "unwinding"}

Types ==
    /\ backend \in {"postgres", "any"}
    /\ calls \in Nat
    /\ inFlight \in BOOLEAN /\ completed \in BOOLEAN /\ returned \in BOOLEAN
    /\ repeated \in BOOLEAN /\ late \in BOOLEAN /\ closed \in BOOLEAN /\ escaped \in BOOLEAN
    /\ rollbackOnly \in BOOLEAN
    /\ inv \in [Invokers -> {"idle", "running", "ended", "unwinding", "done"}]
    /\ boundary \in {"backend", "close", "wait", "answered"}
    /\ ret.state # "nil" /\ (ret.kind = "nil" => ret = Plain("nil"))

(* The guard lets one invocation through, knows whether it is under way,   *)
(* and has the result of one that has returned.                            *)
GuardInv ==
    /\ runs = IF calls = 0 THEN 0 ELSE 1
    /\ \A i, j \in Invokers : Active(i) /\ Active(j) => i = j
    /\ inFlight <=> \E i \in Invokers : Active(i)
    /\ calls = 0 => ~inFlight /\ ~completed /\ ~returned
    /\ calls > 0 => (inFlight <=> ~completed)
    /\ returned => result = failure /\ \A i \in Invokers : inv[i] \notin {"running", "ended"}

(* How PostgreSQL's backend leaves the transaction when it returns. *)
Ended ==
    \/ tx = "none" /\ ret = Plain("error")
    \/ /\ inv[Main] = "done" /\ failure # "none"
       /\ \/ tx = "rolledBack" /\ ret = Proof("rolledBack", TRUE)
          \/ tx = "inDoubt" /\ ret = Proof("rollbackFailed", TRUE)
    \/ /\ inv[Main] = "done" /\ failure = "none" /\ rollbackOnly
       /\ \/ tx = "rolledBack" /\ ret = Proof("rolledBack", FALSE)
          \/ tx = "inDoubt" /\ ret = Proof("rollbackFailed", FALSE)
    \/ /\ inv[Main] = "done" /\ failure = "none" /\ ~rollbackOnly
       /\ \/ tx = "committed" /\ ret = Plain("nil")
          \/ tx = "inDoubt" /\ ret = Proof("commitFailed", FALSE)

(* PostgreSQL's backend calls once, from its own goroutine, in time. *)
PostgresInv ==
    /\ backend # "postgres" => tx = "none"
    /\ backend = "postgres" =>
         /\ \A i \in Others : inv[i] = "idle"
         /\ ~late /\ ~repeated /\ ~escaped
         /\ inv[Main] = "idle" => calls = 0
         /\ inv[Main] # "idle" => calls = 1
         /\ inv[Main] \in {"unwinding", "done"} => returned
         /\ failure # "context"
         /\ tx = "none" => calls = 0 /\ inv[Main] = "idle"
         /\ boundary = "backend" => tx \in {"none", "begun"}
         /\ boundary # "backend" => Ended

(* What is answered follows from what the guard has recorded, and from     *)
(* then on no invocation can change it.                                    *)
AnswerInv ==
    /\ closed <=> boundary \in {"wait", "answered"}
    /\ boundary # "answered" => answer = "pending" /\ engineAnswer = "pending"
    /\ boundary = "answered" => ~inFlight
    /\ "nil" \in {answer, engineAnswer} =>
          calls = 1 /\ returned /\ failure = "none" /\ ~escaped /\ ret = Plain("nil")
    /\ boundary = "answered" /\ backend = "postgres" =>
          answer = DatabaseAnswer /\ engineAnswer = EngineAnswer

IInv == Types /\ GuardInv /\ PostgresInv /\ AnswerInv

-----------------------------------------------------------------------------
(* Once PostgreSQL's backend has returned its invocation is over. *)
LEMMA MainOver ==
    ASSUME IInv, backend = "postgres", boundary # "backend" PROVE inv[Main] \in {"idle", "done"}
<1>1. Ended /\ (tx = "none" => inv[Main] = "idle")
  BY DEF IInv, PostgresInv
<1> QED BY <1>1 DEF Ended

LEMMA InitIInv == Init => IInv
<1> SUFFICES ASSUME Init PROVE IInv
  OBVIOUS
<1>1. Types
  BY BoundaryAssumption DEF Init, Types, Plain
<1>2. GuardInv
  BY DEF Init, GuardInv, Active
<1>3. PostgresInv /\ AnswerInv
  BY DEF Init, PostgresInv, AnswerInv, Invokers
<1> QED BY <1>1, <1>2, <1>3 DEF IInv

LEMMA InvokeKeeps == ASSUME IInv, NEW i \in Invokers, Invoke(i) PROVE IInv'
<1> USE DEF Goto
<1>1. CASE closed
  <2>1. /\ inv' = [inv EXCEPT ![i] = "done"] /\ late' = TRUE /\ inv[i] = "idle"
        /\ i # Main /\ backend # "postgres" /\ boundary \in {"wait", "answered"}
        /\ UNCHANGED <<calls, inFlight, repeated, runs, backend, completed, returned, closed, escaped,
                       result, failure, ret, boundary, answer, engineAnswer, txVars>>
    BY <1>1 DEF Invoke, MayInvoke, IInv, AnswerInv
  <2>2. Types'
    BY <2>1 DEF IInv, Types, txVars
  <2>3. GuardInv'
    BY <2>1 DEF IInv, Types, GuardInv, Active
  <2>4. PostgresInv' /\ AnswerInv'
    BY <2>1 DEF IInv, PostgresInv, AnswerInv, txVars
  <2> QED BY <2>2, <2>3, <2>4 DEF IInv
<1>2. CASE ~closed /\ calls > 0
  <2>1. /\ inv' = [inv EXCEPT ![i] = "done"] /\ calls' = calls + 1 /\ inv[i] = "idle"
        /\ repeated' = TRUE /\ boundary \in {"backend", "close"}
        /\ UNCHANGED <<late, inFlight, runs, backend, completed, returned, closed, escaped,
                       result, failure, ret, boundary, answer, engineAnswer, txVars>>
    BY <1>2 DEF Invoke, MayInvoke, IInv, Types, AnswerInv
  <2>2. backend # "postgres"
    BY <1>2 DEF Invoke, MayInvoke, IInv, PostgresInv
  <2>3. Types'
    BY <2>1 DEF IInv, Types, txVars
  <2>4. GuardInv'
    BY <1>2, <2>1 DEF IInv, Types, GuardInv, Active
  <2>5. PostgresInv' /\ AnswerInv'
    BY <2>1, <2>2 DEF IInv, PostgresInv, AnswerInv, txVars
  <2> QED BY <2>3, <2>4, <2>5 DEF IInv
<1>3. CASE ~closed /\ calls = 0
  <2>1. /\ inv' = [inv EXCEPT ![i] = "running"] /\ calls' = 1 /\ inFlight' = TRUE /\ runs' = 1
        /\ inv[i] = "idle" /\ boundary \in {"backend", "close"}
        /\ backend = "postgres" => i = Main /\ tx = "begun" /\ boundary = "backend"
        /\ UNCHANGED <<late, repeated, backend, completed, returned, closed, escaped,
                       result, failure, ret, boundary, answer, engineAnswer, txVars>>
    BY <1>3 DEF Invoke, MayInvoke, IInv, Types, GuardInv, AnswerInv
  <2>2. ~returned
    BY <1>3, <2>1 DEF IInv, GuardInv
  <2>3. Types'
    BY <2>1 DEF IInv, Types, txVars
  <2>4. GuardInv'
    BY <1>3, <2>1, <2>2 DEF IInv, Types, GuardInv, Active
  <2>5. PostgresInv'
    BY <1>3, <2>1, BoundaryAssumption DEF IInv, Types, PostgresInv, Invokers, txVars
  <2>6. AnswerInv'
    BY <2>1 DEF IInv, AnswerInv
  <2> QED BY <2>3, <2>4, <2>5, <2>6 DEF IInv
<1> QED BY <1>1, <1>2, <1>3 DEF IInv, Types

LEMMA OperationEndsKeeps == ASSUME IInv, NEW i \in Invokers, OperationEnds(i) PROVE IInv'
<1>1. PICK l \in {"ended", "unwinding"} :
        /\ inv' = [inv EXCEPT ![i] = l] /\ inv[i] = "running"
        /\ l = "unwinding" => i # Main
        /\ backend = "postgres" => failure' # "context"
        /\ UNCHANGED <<backend, guardVars, runs, ret, boundary, answer, engineAnswer, txVars>>
  BY DEF OperationEnds, Goto
<1>2. Active(i) /\ inFlight /\ ~returned /\ boundary # "answered"
  BY <1>1 DEF IInv, GuardInv, AnswerInv, Active
<1>3. backend = "postgres" => i = Main /\ boundary = "backend"
  BY <1>1, MainOver DEF IInv, PostgresInv, Invokers
<1>4. Types'
  BY <1>1 DEF IInv, Types, guardVars, txVars
<1>5. GuardInv'
  BY <1>1, <1>2 DEF IInv, Types, GuardInv, Active, guardVars
<1>6. PostgresInv'
  BY <1>1, <1>3, BoundaryAssumption DEF IInv, Types, PostgresInv, Invokers, guardVars, txVars
<1>7. AnswerInv'
  BY <1>1, <1>2 DEF IInv, AnswerInv, guardVars
<1> QED BY <1>4, <1>5, <1>6, <1>7 DEF IInv

LEMMA RecordKeeps == ASSUME IInv, NEW i \in Invokers, Record(i) PROVE IInv'
<1>1. /\ inv' = [inv EXCEPT ![i] = "unwinding"] /\ inv[i] = "ended" /\ returned' = TRUE /\ result' = failure
      /\ UNCHANGED <<backend, calls, inFlight, completed, repeated, late, closed, escaped, runs, failure,
                     ret, boundary, answer, engineAnswer, txVars>>
  BY DEF Record, Goto
<1>2. Active(i) /\ inFlight /\ boundary # "answered" /\ calls # 0
  BY <1>1 DEF IInv, GuardInv, AnswerInv, Active
<1>3. backend = "postgres" => i = Main /\ boundary = "backend"
  BY <1>1, MainOver DEF IInv, PostgresInv, Invokers
<1>4. Types'
  BY <1>1 DEF IInv, Types, txVars
<1>5. GuardInv'
  BY <1>1, <1>2 DEF IInv, Types, GuardInv, Active
<1>6. PostgresInv'
  BY <1>1, <1>3, BoundaryAssumption DEF IInv, Types, PostgresInv, Invokers, txVars
<1>7. AnswerInv'
  BY <1>1, <1>2 DEF IInv, AnswerInv
<1> QED BY <1>4, <1>5, <1>6, <1>7 DEF IInv

LEMMA CompleteKeeps == ASSUME IInv, NEW i \in Invokers, Complete(i) PROVE IInv'
<1>1. /\ inv' = [inv EXCEPT ![i] = "done"] /\ inv[i] = "unwinding" /\ inFlight' = FALSE /\ completed' = TRUE
      /\ UNCHANGED <<backend, calls, returned, repeated, late, closed, escaped, result, runs, failure,
                     ret, boundary, answer, engineAnswer, txVars>>
  BY DEF Complete, Goto
<1>2. Active(i) /\ inFlight /\ boundary # "answered" /\ calls # 0
  BY <1>1 DEF IInv, GuardInv, AnswerInv, Active
<1>3. backend = "postgres" => i = Main /\ boundary = "backend"
  BY <1>1, MainOver DEF IInv, PostgresInv, Invokers
<1>4. Types'
  BY <1>1 DEF IInv, Types, txVars
<1>5. GuardInv'
  BY <1>1, <1>2 DEF IInv, Types, GuardInv, Active
<1>6. PostgresInv'
  BY <1>1, <1>3, BoundaryAssumption DEF IInv, Types, PostgresInv, Invokers, txVars
<1>7. AnswerInv'
  BY <1>1, <1>2 DEF IInv, AnswerInv
<1> QED BY <1>4, <1>5, <1>6, <1>7 DEF IInv

-----------------------------------------------------------------------------
(* The backend's steps leave the guard alone. *)
LEMMA BackendGuard ==
    ASSUME IInv, UNCHANGED <<guardVars, inv, runs, failure>> PROVE GuardInv'
BY DEF IInv, GuardInv, Active, guardVars

LEMMA AnyReturnsKeeps == ASSUME IInv, AnyReturns PROVE IInv'
<1>1. PICK r \in Returns : BackendReturns(r)
  BY DEF AnyReturns
<1>2. r.state # "nil" /\ (r.kind = "nil" => r = Plain("nil"))
  BY DEF Returns, Plain, Proof, ProofStates
<1>3. backend = "any" /\ UNCHANGED txVars
  BY DEF AnyReturns
<1>4. Types'
  BY <1>1, <1>2, <1>3 DEF BackendReturns, IInv, Types, guardVars, txVars
<1>5. GuardInv'
  BY <1>1, BackendGuard DEF BackendReturns
<1>6. PostgresInv' /\ AnswerInv'
  BY <1>1, <1>3 DEF BackendReturns, IInv, PostgresInv, AnswerInv, guardVars, txVars
<1> QED BY <1>4, <1>5, <1>6 DEF IInv

LEMMA BeginTxKeeps == ASSUME IInv, BeginTx PROVE IInv'
<1>1. Types'
  BY DEF BeginTx, IInv, Types, guardVars, Plain
<1>2. GuardInv'
  BY BackendGuard DEF BeginTx
<1>3. PostgresInv'
  BY DEF BeginTx, IInv, PostgresInv, Ended, guardVars
<1>4. AnswerInv'
  BY DEF BeginTx, IInv, AnswerInv, guardVars
<1> QED BY <1>1, <1>2, <1>3, <1>4 DEF IInv

LEMMA NestedKeeps == ASSUME IInv, Nested PROVE IInv'
<1>1. Types'
  <2>1. Types
    BY Zenon DEF IInv
  <2>2. rollbackOnly' \in BOOLEAN
    BY <2>1 DEF Nested, Types
  <2> QED BY Zenon, <2>1, <2>2 DEF Nested, Types, guardVars
<1>2. GuardInv'
  BY BackendGuard DEF Nested
<1>3. boundary = "backend"
  BY DEF Nested, IInv, PostgresInv, Types, Ended, Plain
<1>4. PostgresInv'
  BY <1>3 DEF Nested, IInv, PostgresInv, guardVars
<1>5. AnswerInv'
  BY <1>3 DEF Nested, IInv, AnswerInv, guardVars
<1> QED BY <1>1, <1>2, <1>4, <1>5 DEF IInv

LEMMA EndTxKeeps == ASSUME IInv, EndTx PROVE IInv'
<1>1. /\ backend = "postgres" /\ inv[Main] = "done" /\ boundary = "backend" /\ boundary' = "close"
      /\ UNCHANGED <<backend, guardVars, inv, runs, failure, answer, engineAnswer, rollbackOnly, nested>>
  BY DEF EndTx, BackendReturns
<1>2. Ended' /\ tx' # "none"
  <2>1. CASE failure # "none"
    <3>1. \/ tx' = "rolledBack" /\ ret' = Proof("rolledBack", TRUE)
          \/ tx' = "inDoubt" /\ ret' = Proof("rollbackFailed", TRUE)
      BY <2>1, (failure # "none") = TRUE DEF EndTx, BackendReturns
    <3> QED BY <1>1, <2>1, <3>1 DEF Ended
  <2>2. CASE failure = "none" /\ rollbackOnly
    <3>1. \/ tx' = "rolledBack" /\ ret' = Proof("rolledBack", FALSE)
          \/ tx' = "inDoubt" /\ ret' = Proof("rollbackFailed", FALSE)
      BY <2>2, (failure # "none") = FALSE DEF EndTx, BackendReturns
    <3> QED BY <1>1, <2>2, <3>1 DEF Ended
  <2>3. CASE failure = "none" /\ ~rollbackOnly
    <3>1. \/ tx' = "committed" /\ ret' = Plain("nil")
          \/ tx' = "inDoubt" /\ ret' = Proof("commitFailed", FALSE)
      BY <2>3 DEF EndTx, BackendReturns
    <3> QED BY <1>1, <2>3, <3>1 DEF Ended
  <2> QED BY <2>1, <2>2, <2>3
<1>3. ret'.state # "nil" /\ (ret'.kind = "nil" => ret' = Plain("nil"))
  BY <1>2 DEF Ended, Plain, Proof
<1>4. Types'
  BY <1>1, <1>3 DEF IInv, Types, guardVars
<1>5. GuardInv'
  BY <1>1, BackendGuard
<1>6. PostgresInv'
  BY <1>1, <1>2 DEF IInv, PostgresInv, guardVars
<1>7. AnswerInv'
  BY <1>1 DEF IInv, AnswerInv, guardVars
<1> QED BY <1>4, <1>5, <1>6, <1>7 DEF IInv

-----------------------------------------------------------------------------
(* When PostgreSQL's backend has returned nothing is under way. *)
LEMMA PostgresQuiet ==
    ASSUME IInv, backend = "postgres", boundary # "backend" PROVE ~inFlight
<1>1. inv[Main] \in {"idle", "done"}
  BY MainOver
<1> QED BY <1>1 DEF IInv, GuardInv, PostgresInv, Active, Invokers

LEMMA CloseKeeps == ASSUME IInv, Close PROVE IInv'
<1>1. Types'
  BY DEF Close, IInv, Types, txVars
<1>2. GuardInv'
  BY DEF Close, IInv, GuardInv, Active
<1>3. PostgresInv'
  BY PostgresQuiet DEF Close, IInv, PostgresInv, Ended, txVars
<1>4. AnswerInv'
  BY DEF Close, IInv, AnswerInv
<1> QED BY <1>1, <1>2, <1>3, <1>4 DEF IInv

LEMMA AnswerKeeps == ASSUME IInv, Answer PROVE IInv'
<1>1. Types'
  BY DEF Answer, IInv, Types, guardVars, txVars
<1>2. GuardInv'
  BY BackendGuard DEF Answer
<1>3. PostgresInv'
  BY DEF Answer, IInv, PostgresInv, Ended, guardVars, txVars
<1>4. AnswerInv'
  <2>1. /\ closed /\ ~inFlight /\ boundary' = "answered"
        /\ answer' = DatabaseAnswer /\ engineAnswer' = EngineAnswer
        /\ UNCHANGED <<backend, guardVars, inv, runs, failure, ret, txVars>>
    BY DEF Answer, IInv, AnswerInv
  <2>2. "nil" \in {DatabaseAnswer, EngineAnswer} =>
          Outcome = "returned" /\ failure = "none" /\ ret.kind = "nil"
    BY DEF DatabaseAnswer, EngineAnswer, IInv, Types
  <2>3. Outcome = "returned" => calls = 1 /\ returned /\ ~escaped
    BY DEF Outcome
  <2>4. DatabaseAnswer' = DatabaseAnswer /\ EngineAnswer' = EngineAnswer
    BY <2>1 DEF DatabaseAnswer, EngineAnswer, Outcome, Corroborated, guardVars
  <2> QED BY <2>1, <2>2, <2>3, <2>4 DEF AnswerInv, IInv, Types, guardVars
<1> QED BY <1>1, <1>2, <1>3, <1>4 DEF IInv

LEMMA NextIInv == IInv /\ [Next]_vars => IInv'
<1> SUFFICES ASSUME IInv, [Next]_vars PROVE IInv'
  OBVIOUS
<1>1. ASSUME NEW i \in Invokers, Invoke(i) \/ Running(i) PROVE IInv'
  BY <1>1, InvokeKeeps, OperationEndsKeeps, RecordKeeps, CompleteKeeps DEF Running
<1>2. CASE AnyReturns \/ BeginTx \/ Nested \/ EndTx
  BY <1>2, AnyReturnsKeeps, BeginTxKeeps, NestedKeeps, EndTxKeeps
<1>3. CASE Close \/ Answer
  BY <1>3, CloseKeeps, AnswerKeeps
<1>4. CASE UNCHANGED vars
  <2>1. Types' /\ GuardInv'
    BY <1>4, BackendGuard DEF vars, guardVars, txVars, IInv, Types
  <2>2. PostgresInv'
    BY <1>4 DEF vars, guardVars, txVars, IInv, PostgresInv, Ended
  <2>3. AnswerInv'
    BY <1>4 DEF vars, guardVars, IInv, AnswerInv, DatabaseAnswer, EngineAnswer, Outcome, Corroborated
  <2> QED BY <2>1, <2>2, <2>3 DEF IInv
<1> QED BY <1>1, <1>2, <1>3, <1>4 DEF Next

LEMMA Invariance == Spec => []IInv
BY InitIInv, NextIInv, PTL DEF Spec

(* "callback work can never outlive the framework call" (CloseAndWait),    *)
(* for a backend that hands the callback to any number of goroutines.      *)
THEOREM NoWorkOutlives == Spec => []NeverOutlives
<1>1. IInv => NeverOutlives
  BY DEF IInv, Types, GuardInv, AnswerInv, NeverOutlives, Active
<1> QED BY <1>1, Invariance, PTL

(* Nil from withinTransaction means that the operation ran once and        *)
(* returned nil and, with PostgreSQL's backend, that it is committed with  *)
(* every nested transaction, however many there were.                      *)
THEOREM SuccessIsHonest == Spec => []NilIsHonest
<1>1. ASSUME IInv PROVE NilIsHonest
  <2>1. "nil" \in {answer, engineAnswer} => boundary = "answered"
    BY <1>1 DEF IInv, AnswerInv
  <2>2. "nil" \in {answer, engineAnswer} =>
            /\ runs = 1 /\ calls = 1 /\ returned /\ failure = "none"
            /\ ~escaped /\ ret = Plain("nil")
    BY <1>1 DEF IInv, GuardInv, AnswerInv
  <2>3. "nil" \in {answer, engineAnswer} /\ backend = "postgres" => tx = "committed"
    BY <1>1, <2>1, <2>2 DEF IInv, PostgresInv, Ended, Plain, Proof
  <2>4. tx = "committed" => failure = "none" /\ ~rollbackOnly
    BY <1>1 DEF IInv, PostgresInv, Ended
  <2> QED BY <2>2, <2>3, <2>4 DEF NilIsHonest
<1> QED BY <1>1, Invariance, PTL

(* With PostgreSQL's backend the operation's own error is reported only    *)
(* for a transaction that was rolled back, and a transaction in doubt is   *)
(* reported as such (both withinTransaction).                              *)
THEOREM RollbackProved == Spec => []RollbackIsProved
<1>1. ASSUME IInv PROVE RollbackIsProved
  <2> SUFFICES ASSUME backend = "postgres", boundary = "answered" PROVE RollbackIsProved
    BY <1>1 DEF IInv, AnswerInv, RollbackIsProved
  <2>1. Ended /\ answer = DatabaseAnswer /\ engineAnswer = EngineAnswer
    BY <1>1 DEF IInv, PostgresInv, AnswerInv
  <2>2. CASE tx = "none" /\ ret = Plain("error")
    <3>1. Outcome = "notInvoked"
      BY <1>1, <2>2 DEF IInv, PostgresInv, Outcome
    <3>2. answer = "setup" /\ engineAnswer = "setup"
      BY <2>1, <2>2, <3>1 DEF DatabaseAnswer, EngineAnswer, Plain
    <3> QED BY <2>2, <3>2 DEF RollbackIsProved
  <2>3. CASE inv[Main] = "done"
    <3>1. Outcome = "returned" /\ result = failure /\ failure # "context"
      BY <1>1, <2>3, PostgresQuiet DEF IInv, PostgresInv, GuardInv, Outcome
    <3>2. CASE failure # "none"
      <4>0. tx # "none"
        BY <1>1, <2>3 DEF IInv, PostgresInv
      <4>1. \/ tx = "rolledBack" /\ ret = Proof("rolledBack", TRUE)
            \/ tx = "inDoubt" /\ ret = Proof("rollbackFailed", TRUE)
        BY <2>1, <3>2, <4>0 DEF Ended
      <4>2. Corroborated
        BY <3>1, <4>1 DEF Corroborated, Proof
      <4> QED BY <2>1, <3>1, <3>2, <4>1, <4>2 DEF RollbackIsProved, DatabaseAnswer, EngineAnswer, Proof
    <3>3. CASE failure = "none"
      BY <2>1, <2>3, <3>1, <3>3 DEF RollbackIsProved, DatabaseAnswer, EngineAnswer, Proof, Plain, Ended
    <3> QED BY <3>2, <3>3
  <2> QED BY <2>1, <2>2, <2>3 DEF Ended
<1> QED BY <1>1, Invariance, PTL

(* Whatever the backend does, the answer to the caller is true of the      *)
(* transaction (withinTransaction of the Engine and of the Store).         *)
THEOREM AnswersHonest == Spec => []AnswersAreHonest
BY SuccessIsHonest, RollbackProved, PTL DEF AnswersAreHonest
=============================================================================
