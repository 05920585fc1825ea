------------------------- MODULE TransactionBoundary -------------------------
(***************************************************************************)
(* A transaction at the boundary between Modary and a backend: the callback*)
(* guard (callbackcontract.ExactlyOnce), the two callers that classify     *)
(* what a backend did (databasecontrol's withinTransaction for the Store,  *)
(* the Action Engine's for governed Actions), and the PostgreSQL backend   *)
(* with its nested transactions.  The backend is either PostgreSQL's or    *)
(* any extension at all: it may call the callback never, again, from       *)
(* another goroutine or after it returned, and may return anything.        *)
(***************************************************************************)
EXTENDS Naturals, FiniteSets

CONSTANTS
    Main,                   \* the goroutine that called the boundary
    Others,                 \* goroutines a backend may start
    Backends,               \* "postgres", "any" or both
    MaxNested               \* nested transactions of one operation

Invokers == {Main} \cup Others

ASSUME BoundaryAssumption ==
    Main \notin Others /\ Backends \subseteq {"postgres", "any"} /\ MaxNested \in Nat

VARIABLES
    backend,                \* the backend behind this boundary
    calls, inFlight, completed, returned, repeated, late, closed, escaped, \* ExactlyOnce
    result,                 \* ExactlyOnce.result: nil or the operation's failure
    inv,                    \* where an invocation of the callback is
    runs,                   \* how often the operation began
    failure,                \* operationFailure
    ret,                    \* what the backend returned
    boundary,               \* where withinTransaction is
    answer, engineAnswer,   \* what the two callers make of it
    tx, rollbackOnly, nested \* the PostgreSQL transaction and its binding

guardVars == <<calls, inFlight, completed, returned, repeated, late, closed, escaped, result>>
txVars == <<tx, rollbackOnly, nested>>
vars == <<backend, guardVars, inv, runs, failure, ret, boundary, answer, engineAnswer, txVars>>

ProofStates == {"rollbackPending", "rolledBack", "rollbackFailed", "commitFailed"}

(* An error: plain, a panic, or a proof (transactionoutcome) that names    *)
(* this operation's failure or does not.                                   *)
Proof(s, mine) == [kind |-> "proof", state |-> s, mine |-> mine]
Plain(kind) == [kind |-> kind, state |-> "none", mine |-> FALSE]
Returns == {Plain(k) : k \in {"nil", "error", "panic"}}
           \cup {Proof(s, m) : s \in ProofStates \ {"commitFailed"}, m \in BOOLEAN}
           \cup {Proof("commitFailed", FALSE)}

Failures == {"none", "error", "panic", "context"}
Answers == {"pending", "nil", "setup", "contract", "rollbackPending", "rolledBack",
            "rollbackFailed", "commitFailed", "panic", "atomicity", "operation"}

TypeOK ==
    /\ backend \in Backends
    /\ calls \in 0..Cardinality(Invokers)
    /\ inFlight \in BOOLEAN /\ completed \in BOOLEAN /\ returned \in BOOLEAN
    /\ repeated \in BOOLEAN /\ late \in BOOLEAN /\ closed \in BOOLEAN /\ escaped \in BOOLEAN
    /\ result \in Failures /\ failure \in Failures
    /\ inv \in [Invokers -> {"idle", "running", "ended", "unwinding", "done"}]
    /\ runs \in 0..1
    /\ ret \in Returns
    /\ boundary \in {"backend", "close", "wait", "answered"}
    /\ answer \in Answers /\ engineAnswer \in Answers
    /\ tx \in {"none", "begun", "committed", "rolledBack", "inDoubt"}
    /\ rollbackOnly \in BOOLEAN /\ nested \in 0..MaxNested

Init ==
    /\ backend \in Backends
    /\ calls = 0 /\ inFlight = FALSE /\ completed = FALSE /\ returned = FALSE
    /\ repeated = FALSE /\ late = FALSE /\ closed = FALSE /\ escaped = FALSE
    /\ result = "none" /\ failure = "none"
    /\ inv = [i \in Invokers |-> "idle"] /\ runs = 0
    /\ ret = Plain("nil") /\ boundary = "backend"
    /\ answer = "pending" /\ engineAnswer = "pending"
    /\ tx = "none" /\ rollbackOnly = FALSE /\ nested = 0

Goto(i, label) == inv' = [inv EXCEPT ![i] = label]

-----------------------------------------------------------------------------
(* The guard: Invoke, in its three critical sections. *)

(* Who may call the callback, and when. *)
MayInvoke(i) ==
    /\ inv[i] = "idle"
    /\ i = Main => boundary = "backend"
    /\ backend = "postgres" => i = Main /\ tx = "begun"

Invoke(i) ==
    /\ MayInvoke(i)
    /\ IF closed
       THEN Goto(i, "done") /\ late' = TRUE /\ UNCHANGED <<calls, inFlight, repeated, runs>>
       ELSE /\ calls' = calls + 1
            /\ IF calls > 0
               THEN Goto(i, "done") /\ repeated' = TRUE /\ UNCHANGED <<inFlight, runs>>
               ELSE Goto(i, "running") /\ inFlight' = TRUE /\ runs' = runs + 1 /\ UNCHANGED repeated
            /\ UNCHANGED late
    /\ UNCHANGED <<backend, completed, returned, closed, escaped, result, failure, ret, boundary, answer,
                   engineAnswer, txVars>>

(* The guarded operation ends: it returns, fails, is given no context, or  *)
(* panics, which the wrapper turns into a failure; a goroutine of the      *)
(* backend may also exit in it, and then Invoke never returns.             *)
OperationEnds(i) ==
    /\ inv[i] = "running"
    /\ \/ /\ failure' \in (Failures \ IF backend = "postgres" THEN {"context"} ELSE {})
          /\ Goto(i, "ended")
       \/ /\ i # Main
          /\ failure' = "panic"
          /\ Goto(i, "unwinding")
    /\ UNCHANGED <<backend, guardVars, runs, ret, boundary, answer, engineAnswer, txVars>>

Record(i) ==
    /\ inv[i] = "ended"
    /\ Goto(i, "unwinding")
    /\ returned' = TRUE
    /\ result' = failure
    /\ UNCHANGED <<backend, calls, inFlight, completed, repeated, late, closed, escaped, runs, failure, ret,
                   boundary, answer, engineAnswer, txVars>>

(* Mutant: the end of an invocation is not deferred. *)
CompleteReturned(i) ==
    /\ inv[i] = "unwinding"
    /\ returned
    /\ Goto(i, "done")
    /\ inFlight' = FALSE
    /\ completed' = TRUE
    /\ UNCHANGED <<backend, calls, returned, repeated, late, closed, escaped, result, runs, failure, ret,
                   boundary, answer, engineAnswer, txVars>>

Complete(i) ==
    /\ inv[i] = "unwinding"
    /\ Goto(i, "done")
    /\ inFlight' = FALSE
    /\ completed' = TRUE
    /\ UNCHANGED <<backend, calls, returned, repeated, late, closed, escaped, result, runs, failure, ret,
                   boundary, answer, engineAnswer, txVars>>

-----------------------------------------------------------------------------
(* The backend. *)

BackendReturns(r) ==
    /\ boundary = "backend"
    /\ inv[Main] \in {"idle", "done"}
    /\ ret' = r
    /\ boundary' = "close"
    /\ UNCHANGED <<backend, guardVars, inv, runs, failure, answer, engineAnswer>>

(* An extension returns whatever and whenever it likes. *)
AnyReturns ==
    /\ backend = "any"
    /\ \E r \in Returns : BackendReturns(r)
    /\ UNCHANGED txVars

(* PostgreSQL: BEGIN fails or not ... *)
BeginTx ==
    /\ backend = "postgres"
    /\ tx = "none"
    /\ boundary = "backend"
    /\ \/ /\ tx' = "begun"
          /\ UNCHANGED <<ret, boundary>>
       \/ /\ ret' = Plain("error") /\ boundary' = "close"
          /\ UNCHANGED tx
    /\ UNCHANGED <<backend, guardVars, inv, runs, failure, answer, engineAnswer, rollbackOnly, nested>>

(* ... the operation may open nested transactions, which join this one; a  *)
(* failure or a panic inside one marks the binding, and the operation is   *)
(* free to ignore what the nested call returned ...                        *)
Nested ==
    /\ inv[Main] = "running"
    /\ backend = "postgres"
    /\ nested < MaxNested
    /\ nested' = nested + 1
    /\ rollbackOnly' \in {rollbackOnly, TRUE}
    /\ UNCHANGED <<backend, guardVars, inv, runs, failure, ret, boundary, answer, engineAnswer, tx>>

(* ... and the end follows what the callback returned and the binding. *)
(* Mutant: the binding is not consulted when the operation succeeded. *)
EndTxIgnoringNested ==
    /\ backend = "postgres"
    /\ inv[Main] = "done"
    /\ tx = "begun"
    /\ UNCHANGED <<rollbackOnly, nested>>
    /\ IF failure # "none"
       THEN \/ tx' = "rolledBack" /\ BackendReturns(Proof("rolledBack", TRUE))
            \/ tx' = "inDoubt" /\ BackendReturns(Proof("rollbackFailed", TRUE))
       ELSE \/ tx' = "committed" /\ BackendReturns(Plain("nil"))
            \/ tx' = "inDoubt" /\ BackendReturns(Proof("commitFailed", FALSE))

EndTx ==
    /\ backend = "postgres"
    /\ inv[Main] = "done"
    /\ tx = "begun"
    /\ UNCHANGED <<rollbackOnly, nested>>
    /\ IF failure # "none" \/ rollbackOnly
       THEN \/ tx' = "rolledBack" /\ BackendReturns(Proof("rolledBack", failure # "none"))
            \/ tx' = "inDoubt" /\ BackendReturns(Proof("rollbackFailed", failure # "none"))
       ELSE \/ tx' = "committed" /\ BackendReturns(Plain("nil"))
            \/ tx' = "inDoubt" /\ BackendReturns(Proof("commitFailed", FALSE))

-----------------------------------------------------------------------------
(* CloseAndWait, Snapshot.Outcome, and the classification. *)

Close ==
    /\ boundary = "close"
    /\ closed' = TRUE
    /\ escaped' = inFlight
    /\ boundary' = "wait"
    /\ UNCHANGED <<backend, calls, inFlight, completed, returned, repeated, late, result, inv, runs, failure,
                   ret, answer, engineAnswer, txVars>>

Outcome ==
    IF calls = 0 /\ ~late THEN "notInvoked"
    ELSE IF calls = 1 /\ completed /\ ~repeated /\ ~late /\ ~escaped
         THEN IF returned THEN "returned" ELSE "panicked"
         ELSE "violation"

(* The proof is this framework's, is the error itself, and names this      *)
(* operation's failure.                                                    *)
Corroborated == result = failure /\ failure # "context" /\ ret.kind = "proof" /\ ret.mine

DatabaseAnswer ==
    CASE Outcome = "notInvoked" ->
            IF ret.kind \in {"error", "panic"} THEN "setup" ELSE "contract"
      [] Outcome = "returned" /\ failure = "none" ->
            IF ret.kind = "nil" THEN "nil"
            ELSE IF ret.state = "commitFailed" THEN "commitFailed" ELSE "contract"
      [] Outcome = "returned" /\ failure # "none" ->
            IF ~Corroborated THEN "contract"
            ELSE IF failure = "panic" THEN "panic" ELSE ret.state
      [] OTHER -> "contract"

(* Mutant: any proof will do. *)
EngineAnswerTrusting ==
    CASE Outcome = "notInvoked" ->
            IF ret.kind \in {"error", "panic"} THEN "setup" ELSE "contract"
      [] Outcome = "returned" /\ failure = "none" ->
            IF ret.kind = "nil" THEN "nil" ELSE IF ret.kind = "proof" THEN "atomicity" ELSE "contract"
      [] Outcome = "returned" /\ failure # "none" ->
            IF ~Corroborated THEN "contract" ELSE "operation"
      [] OTHER -> "contract"

EngineAnswer ==
    CASE Outcome = "notInvoked" ->
            IF ret.kind \in {"error", "panic"} THEN "setup" ELSE "contract"
      [] Outcome = "returned" /\ failure = "none" ->
            IF ret.kind = "nil" THEN "nil" ELSE IF ret.kind = "proof" THEN "atomicity" ELSE "contract"
      [] Outcome = "returned" /\ failure # "none" ->
            IF ~Corroborated THEN "contract"
            ELSE IF ret.state = "rolledBack" THEN "operation" ELSE "atomicity"
      [] OTHER -> "contract"

(* Mutant: the boundary does not wait for an invocation that escaped. *)
AnswerAtOnce ==
    /\ boundary = "wait"
    /\ boundary' = "answered"
    /\ answer' = DatabaseAnswer
    /\ engineAnswer' = EngineAnswer
    /\ UNCHANGED <<backend, guardVars, inv, runs, failure, ret, txVars>>

Answer ==
    /\ boundary = "wait"
    /\ ~inFlight
    /\ boundary' = "answered"
    /\ answer' = DatabaseAnswer
    /\ engineAnswer' = EngineAnswer
    /\ UNCHANGED <<backend, guardVars, inv, runs, failure, ret, txVars>>

Running(i) == OperationEnds(i) \/ Record(i) \/ Complete(i)

Next ==
    \/ \E i \in Invokers : Invoke(i) \/ Running(i)
    \/ AnyReturns \/ BeginTx \/ Nested \/ EndTx
    \/ Close \/ Answer

Spec == Init /\ [][Next]_vars

(* The operation ends and the boundary's goroutine goes on; an extension   *)
(* need never return, PostgreSQL's backend does.                           *)
FairSpec ==
    /\ Spec
    /\ \A i \in Invokers : WF_vars(Running(i))
    /\ WF_vars(Close \/ Answer) /\ WF_vars(BeginTx \/ EndTx \/ (tx = "begun" /\ Invoke(Main)))

-----------------------------------------------------------------------------
(* "callback work can never outlive the framework call" (CloseAndWait):    *)
(* the operation runs at most once and is over when the boundary answers,  *)
(* whatever the backend does with the callback.                            *)
NeverOutlives ==
    /\ runs <= 1
    /\ boundary = "answered" => \A i \in Invokers : inv[i] \in {"idle", "done"}

(* Success is believed only for one synchronous invocation that returned   *)
(* nil: an extension cannot make its own nil look like the operation's     *)
(* (both classifications).  With the PostgreSQL backend nil means          *)
(* committed, and nothing is committed over a nested transaction that      *)
(* failed, even one whose error the operation ignored.                     *)
NilIsHonest ==
    /\ "nil" \in {answer, engineAnswer} =>
          /\ runs = 1 /\ calls = 1 /\ returned /\ failure = "none"
          /\ ~escaped /\ ret = Plain("nil")
          /\ backend = "postgres" => tx = "committed"
    /\ tx = "committed" => failure = "none" /\ ~rollbackOnly

(* The Engine reports an operation's own error, which tells the caller     *)
(* that nothing was kept, only when the rollback is proved; in doubt it    *)
(* reports the loss of atomicity, and the Store repeats a panic only after *)
(* the transaction has ended (both withinTransaction).                     *)
RollbackIsProved ==
    backend = "postgres" =>
        /\ engineAnswer = "operation" => tx = "rolledBack"
        /\ answer = "rolledBack" => tx = "rolledBack"
        /\ answer = "panic" => tx \in {"rolledBack", "inDoubt"}
        /\ (tx = "inDoubt" /\ boundary = "answered") =>
              /\ engineAnswer \in {"atomicity", "contract"}
              /\ answer \in {"rollbackFailed", "commitFailed", "contract", "panic"}

(* What the caller is told is true of the transaction: nil of a success,   *)
(* an error of the operation's own of a rollback, anything else of neither *)
(* (Complete, both withinTransaction).                                     *)
AnswersAreHonest == NilIsHonest /\ RollbackIsProved

(* Once the backend has returned the caller gets its answer, although an   *)
(* invocation escaped into another goroutine.                              *)
BoundaryAnswers == (boundary = "close") ~> (boundary = "answered")
=============================================================================
