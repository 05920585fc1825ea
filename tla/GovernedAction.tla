--------------------------- MODULE GovernedAction ---------------------------
(***************************************************************************)
(* internal/actionruntime/runtime.go: Preview and Execute of one governed  *)
(* Action over the PostgreSQL persistence of components/governedpostgres,  *)
(* with the optimistic-version Handler of examples/counter.                *)
(*                                                                         *)
(* The database runs at READ COMMITTED.  Every statement is one action: it *)
(* reads the committed tables, its own writes wait in tx[c] until Commit,  *)
(* and an INSERT or UPDATE of a row another transaction has written waits  *)
(* for that transaction (keyOwner, rowOwner).  A call is one invocation of *)
(* Preview or Execute; a retry is another call that names the same key.    *)
(*                                                                         *)
(* Input stands for everything a plan and an idempotency record are bound  *)
(* to besides the key (actor type, channel, Action contract, canonical     *)
(* input).  A policy is named by the fingerprint of its decision.  A plan  *)
(* hash is the plan itself: SHA-256 over all of its fields.                *)
(***************************************************************************)
EXTENDS Naturals

CONSTANTS
    Previews,       \* calls of Preview
    Executes,       \* calls of Execute
    Inputs,         \* bound request contents
    Keys,           \* idempotency keys, each with its scope, actor and Action
    Policies,       \* fingerprints of the allowing policies
    Rows,           \* Impact.Rows of each input
    MaxRows,        \* Constraints.MaxRows of each policy, 0 for unlimited
    PlanTTL,        \* RuntimePolicy.PlanTTL
    MaxTime,        \* bound on the clock
    PreviewMode,    \* Descriptor.Preview
    RequiresIdempotency,  \* Descriptor.RequiresIdempotency
    Deny,           \* the policy that allows nothing
    None            \* no key, plan, record, owner or answer

Calls == Previews \cup Executes

ASSUME CallAssumption ==
    /\ Previews \cap Executes = {}
    /\ None \notin Calls \cup Inputs \cup Keys \cup Policies
    /\ Deny \notin Policies \cup {None}
ASSUME RowAssumption == Rows \in [Inputs -> Nat] /\ MaxRows \in [Policies -> Nat]
ASSUME TimeAssumption == PlanTTL \in Nat \ {0} /\ MaxTime \in Nat
ASSUME DescriptorAssumption ==
    PreviewMode \in {"none", "optional", "required"} /\ RequiresIdempotency \in BOOLEAN

(* What Preview and Execute pass around and store. *)
PlanType == [input : Inputs, snap : Nat, fp : Policies \cup {None}, exp : Nat]
RecordType == [input : Inputs, plan : PlanType, fp : Policies, status : {"running", "completed"},
               result : Nat \cup {None}]
EffectType == [call : Executes, key : Keys \cup {None}, input : Inputs, plan : PlanType,
               fp : Policies, result : Nat]
RequestType == [input : Inputs, plan : PlanType \cup {None}, key : Keys \cup {None}]
TxType == [idem : RecordType \cup {None}, wrote : BOOLEAN, audit : BOOLEAN, save : PlanType \cup {None},
           dels : SUBSET PlanType, orphan : {"no", "commit", "abort"}]
Codes == {"ok", "internal", "authz_denied", "limit_exceeded", "plan_required", "plan_not_found", "plan_stale",
          "precondition_failed", "idempotency_required", "idempotency_conflict", "idempotency_in_progress"}
AnswerType == [kind : {"ok", "rejected", "unknown"}, code : Codes, result : Nat \cup {None}]

ASSUME NoneAssumption ==
    None \notin PlanType /\ None \notin RecordType /\ None \notin RequestType /\ None \notin AnswerType

VARIABLES
    policy,     \* the authorization state the Authorizer reads
    now,        \* the clock
    version,    \* the Counter row of the scope (its optimistic version)
    plans,      \* modary_action_plan
    idem,       \* modary_action_idempotency, by key
    effects,    \* the business mutations that have been committed
    audits,     \* calls with a committed required audit event
    keyOwner,   \* the open transaction that has inserted the key's row
    rowOwner,   \* the open transaction that has updated the Counter row
    pc,         \* where each call is
    req,        \* the request of each call
    plan,       \* the plan each call has resolved
    dec,        \* DecisionFingerprint of the decision made inside the transaction
    found,      \* the stored idempotency record a call has read
    tx,         \* the uncommitted writes of each call
    reply,      \* what a call is about to answer
    resp,       \* what a call has answered
    seen        \* history: policies in force since the call's transaction began

tables == <<version, plans, idem, effects, audits>>
locks == <<keyOwner, rowOwner>>
local == <<req, plan, dec, found>>
vars == <<policy, now, tables, locks, pc, local, tx, reply, resp, seen>>

EmptyTx == [idem |-> None, wrote |-> FALSE, audit |-> FALSE, save |-> None, dels |-> {}, orphan |-> "no"]

Init ==
    /\ policy \in Policies \cup {Deny}
    /\ now = 0
    /\ version = 0
    /\ plans = {}
    /\ idem = [k \in Keys |-> None]
    /\ effects = {}
    /\ audits = {}
    /\ keyOwner = [k \in Keys |-> None]
    /\ rowOwner = None
    /\ pc = [c \in Calls |-> "idle"]
    /\ req = [c \in Calls |-> None]
    /\ plan = [c \in Calls |-> None]
    /\ dec = [c \in Calls |-> None]
    /\ found = [c \in Calls |-> None]
    /\ tx = [c \in Calls |-> EmptyTx]
    /\ reply = [c \in Calls |-> None]
    /\ resp = [c \in Calls |-> None]
    /\ seen = [c \in Calls |-> {}]

-----------------------------------------------------------------------------
(* Control helpers. *)

Goto(c, l) == pc' = [pc EXCEPT ![c] = l]

Answer(kind, code, result) == [kind |-> kind, code |-> code, result |-> result]

(* An error before any transaction, or after one has ended: fail() audits  *)
(* it and the call returns it.                                             *)
Reject(c, code) ==
    /\ reply' = [reply EXCEPT ![c] = Answer("rejected", code, None)]
    /\ Goto(c, "reply")

(* An error returned by the transaction callback: a reservation made in it *)
(* is aborted by the deferred Abort, then the owner rolls back.            *)
TxReject(c, code) ==
    /\ reply' = [reply EXCEPT ![c] = Answer("rejected", code, None)]
    /\ Goto(c, IF tx[c].idem = None THEN "rollback" ELSE "txAbort")

(* The call goes on when its check says "ok". *)
Proceed(c, code, l) ==
    IF code = "ok" THEN Goto(c, l) /\ UNCHANGED reply ELSE Reject(c, code)

TxProceed(c, code, l) ==
    IF code = "ok" THEN Goto(c, l) /\ UNCHANGED reply ELSE TxReject(c, code)

Begin(c) == seen' = [seen EXCEPT ![c] = {policy}]

(* Mutant: the reservation's lock outlives the transaction. *)
ReleaseLocksKeepingKeys(c) ==
    /\ rowOwner' = IF rowOwner = c THEN None ELSE rowOwner
    /\ tx' = [tx EXCEPT ![c] = EmptyTx]
    /\ UNCHANGED keyOwner

(* Ending a transaction gives up its row locks. *)
ReleaseLocks(c) ==
    /\ keyOwner' = [k \in Keys |-> IF keyOwner[k] = c THEN None ELSE keyOwner[k]]
    /\ rowOwner' = IF rowOwner = c THEN None ELSE rowOwner
    /\ tx' = [tx EXCEPT ![c] = EmptyTx]

(* enforceConstraints: zero means unlimited. *)
Exceeds(p, i) == MaxRows[p] > 0 /\ Rows[i] > MaxRows[p]

(* Mutant: the fingerprint is not compared. *)
ImpactCodeAnyFingerprint(i, expected) ==
    IF policy = Deny THEN "authz_denied"
    ELSE IF Exceeds(policy, i) THEN "limit_exceeded"
    ELSE "ok"

(* authorize in the intent phase. *)
IntentCode == IF policy = Deny THEN "authz_denied" ELSE "ok"

(* authorizeImpact: denied, then the row constraint, then the fingerprint  *)
(* the plan was bound to ("" when there is none).                          *)
ImpactCode(i, expected) ==
    IF policy = Deny THEN "authz_denied"
    ELSE IF Exceeds(policy, i) THEN "limit_exceeded"
    ELSE IF expected # None /\ policy # expected THEN "plan_stale"
    ELSE "ok"

-----------------------------------------------------------------------------
(* Preview. *)

(* Validation, the Preview policy and the first intent authorization.      *)
PreviewCode == IF PreviewMode = "none" THEN "precondition_failed" ELSE IntentCode

PreviewStart(c) ==
    /\ pc[c] = "idle"
    /\ \E i \in Inputs : req' = [req EXCEPT ![c] = [input |-> i, plan |-> None, key |-> None]]
    /\ Proceed(c, PreviewCode, "plan")
    /\ UNCHANGED <<policy, now, tables, locks, plan, dec, found, tx, resp, seen>>

(* What Handler.Plan returns: the state it has read, not yet bound to a    *)
(* decision or to a lifetime.  A Handler that refuses the input instead is *)
(* a call that fails before its transaction (DependencyFailure).           *)
HandlerPlan(i) == [input |-> i, snap |-> version, fp |-> None, exp |-> now + PlanTTL]

PreviewPlan(c) ==
    /\ pc[c] = "plan"
    /\ plan' = [plan EXCEPT ![c] = HandlerPlan(req[c].input)]
    /\ Goto(c, "planImpact")
    /\ UNCHANGED <<policy, now, tables, locks, req, dec, found, tx, reply, resp, seen>>

PreviewImpact(c) ==
    /\ pc[c] = "planImpact"
    /\ Proceed(c, ImpactCode(req[c].input, None), "saveIntent")
    /\ UNCHANGED <<policy, now, tables, locks, local, tx, resp, seen>>

PreviewTxIntent(c) ==
    /\ pc[c] = "saveIntent"
    /\ Begin(c)
    /\ TxProceed(c, IntentCode, "saveImpact")
    /\ UNCHANGED <<policy, now, tables, locks, local, tx, resp>>

(* The plan is bound to the decision of this transaction and lives for     *)
(* PlanTTL from this reading of the clock.                                 *)
PreviewTxImpact(c) ==
    /\ pc[c] = "saveImpact"
    /\ LET code == ImpactCode(req[c].input, None) IN
        /\ TxProceed(c, code, "savePlan")
        /\ plan' = IF code = "ok" THEN [plan EXCEPT ![c].fp = policy, ![c].exp = now + PlanTTL] ELSE plan
    /\ UNCHANGED <<policy, now, tables, locks, req, dec, found, tx, resp, seen>>

(* Mutant: plans go one tick early. *)
ExpiredEarly(at) == {p \in plans : p.exp <= at + 1}

Expired(at) == {p \in plans : p.exp <= at}

(* DeleteExpired at the creation time of the plan, then Save, which waits  *)
(* for a transaction inserting the same hash and accepts a stored plan.    *)
PreviewSave(c) ==
    /\ pc[c] = "savePlan"
    /\ \A d \in Previews \ {c} : tx[d].save # plan[c]
    /\ tx' = [tx EXCEPT ![c].dels = Expired(plan[c].exp - PlanTTL),
                        ![c].save = IF plan[c] \in plans THEN None ELSE plan[c]]
    /\ Goto(c, "txAudit")
    /\ UNCHANGED <<policy, now, tables, locks, local, reply, resp, seen>>

(* CleanupExpiredPlans, also run by operators outside any transaction. *)
CleanupExpiredPlans ==
    /\ Expired(now) # {}
    /\ plans' = plans \ Expired(now)
    /\ UNCHANGED <<policy, now, version, idem, effects, audits, locks, pc, local, tx, reply, resp, seen>>

-----------------------------------------------------------------------------
(* Execute, before its transaction. *)

(* Intent authorization, the idempotency requirement and the Preview       *)
(* policy.  The caller may name any plan Preview has ever answered.        *)
Issued == {plan[c] : c \in {d \in Previews : resp[d] # None /\ resp[d].kind = "ok"}}

ExecuteCode(h, k) ==
    IF policy = Deny THEN "authz_denied"
    ELSE IF RequiresIdempotency /\ k = None THEN "idempotency_required"
    ELSE IF PreviewMode = "required" /\ h = None THEN "plan_required"
    ELSE IF PreviewMode = "none" /\ h # None THEN "precondition_failed"
    ELSE "ok"

ExecuteStart(c) ==
    /\ pc[c] = "idle"
    /\ \E i \in Inputs, h \in Issued \cup {None}, k \in Keys \cup {None} :
        /\ req' = [req EXCEPT ![c] = [input |-> i, plan |-> h, key |-> k]]
        /\ Proceed(c, ExecuteCode(h, k), IF k = None THEN "resolve" ELSE "lookup")
    /\ UNCHANGED <<policy, now, tables, locks, plan, dec, found, tx, resp, seen>>

ExecuteLookup(c) ==
    /\ pc[c] = "lookup"
    /\ Goto(c, IF idem[req[c].key] = None THEN "resolve" ELSE "replayRead")
    /\ UNCHANGED <<policy, now, tables, locks, local, tx, reply, resp, seen>>

(* loadExecutionPlan: found, bound to this request, not expired. *)
LoadCode(h, i) ==
    IF h \notin plans THEN "plan_not_found"
    ELSE IF h.input # i \/ now >= h.exp THEN "plan_stale"
    ELSE "ok"

(* resolveExecutionPlan: a stored plan, or one the Handler makes now. *)
ExecuteResolve(c) ==
    /\ pc[c] = "resolve"
    /\ LET h == req[c].plan
           code == IF h = None THEN "ok" ELSE LoadCode(h, req[c].input)
       IN  /\ Proceed(c, code, "impact")
           /\ plan' = IF code # "ok" THEN plan
                      ELSE [plan EXCEPT ![c] = IF h = None THEN HandlerPlan(req[c].input) ELSE h]
    /\ UNCHANGED <<policy, now, tables, locks, req, dec, found, tx, resp, seen>>

(* The first impact authorization; sealExecutionPlan binds a plan the      *)
(* Handler has just made to this decision, and the plan must be for the    *)
(* input of the request.                                                   *)
ExecuteImpact(c) ==
    /\ pc[c] = "impact"
    /\ LET authorized == ImpactCode(plan[c].input, plan[c].fp)
           code == IF authorized = "ok" /\ plan[c].input # req[c].input THEN "plan_stale" ELSE authorized
       IN  /\ Proceed(c, code, "txIntent")
           /\ plan' = IF code = "ok" THEN [plan EXCEPT ![c].fp = policy] ELSE plan
    /\ UNCHANGED <<policy, now, tables, locks, req, dec, found, tx, resp, seen>>

-----------------------------------------------------------------------------
(* Execute, its transaction: authorize again, reserve, let the Handler     *)
(* mutate, complete the record, audit, commit.                             *)

TxIntent(c) ==
    /\ pc[c] = "txIntent"
    /\ Begin(c)
    /\ TxProceed(c, IntentCode, "txImpact")
    /\ UNCHANGED <<policy, now, tables, locks, local, tx, resp>>

TxImpact(c) ==
    /\ pc[c] = "txImpact"
    /\ LET code == ImpactCode(plan[c].input, plan[c].fp) IN
        /\ TxProceed(c, code, IF req[c].key = None THEN "txRead" ELSE "txReserve")
        /\ dec' = IF code = "ok" THEN [dec EXCEPT ![c] = policy] ELSE dec
    /\ UNCHANGED <<policy, now, tables, locks, req, plan, found, tx, resp, seen>>

Record(c, status, result) ==
    [input |-> req[c].input, plan |-> plan[c], fp |-> dec[c], status |-> status, result |-> result]

(* Mutant: the Lookup made before the transaction is trusted. *)
TxReserveTrustsLookup(c) ==
    /\ pc[c] = "txReserve"
    /\ keyOwner[req[c].key] = None
    /\ keyOwner' = [keyOwner EXCEPT ![req[c].key] = c]
    /\ tx' = [tx EXCEPT ![c].idem = Record(c, "running", None)]
    /\ Goto(c, "txRead")
    /\ UNCHANGED <<policy, now, tables, rowOwner, local, reply, resp, seen>>

(* Mutant: a key in use is refused instead of waited for. *)
TxReserveBusy(c) ==
    /\ pc[c] = "txReserve"
    /\ IF keyOwner[req[c].key] # None THEN TxReject(c, "idempotency_in_progress") /\ UNCHANGED <<keyOwner, tx, found>>
       ELSE IF idem[req[c].key] = None
       THEN /\ keyOwner' = [keyOwner EXCEPT ![req[c].key] = c]
            /\ tx' = [tx EXCEPT ![c].idem = Record(c, "running", None)]
            /\ Goto(c, "txRead")
            /\ UNCHANGED <<found, reply>>
       ELSE /\ found' = [found EXCEPT ![c] = idem[req[c].key]]
            /\ Goto(c, "replayImpact")
            /\ UNCHANGED <<keyOwner, tx, reply>>
    /\ UNCHANGED <<policy, now, tables, rowOwner, req, plan, dec, resp, seen>>

(* Reserve: INSERT ... ON CONFLICT DO NOTHING waits for a transaction that *)
(* has inserted the key and not ended; a committed row is then loaded and  *)
(* answered by completedResult.                                            *)
TxReserve(c) ==
    /\ pc[c] = "txReserve"
    /\ keyOwner[req[c].key] = None
    /\ IF idem[req[c].key] = None
       THEN /\ keyOwner' = [keyOwner EXCEPT ![req[c].key] = c]
            /\ tx' = [tx EXCEPT ![c].idem = Record(c, "running", None)]
            /\ Goto(c, "txRead")
            /\ UNCHANGED found
       ELSE /\ found' = [found EXCEPT ![c] = idem[req[c].key]]
            /\ Goto(c, "replayImpact")
            /\ UNCHANGED <<keyOwner, tx>>
    /\ UNCHANGED <<policy, now, tables, rowOwner, req, plan, dec, reply, resp, seen>>

(* incrementHandler.Execute: recheck the state the plan was made from ...  *)
HandlerRead(c) ==
    /\ pc[c] = "txRead"
    /\ TxProceed(c, IF version = plan[c].snap THEN "ok" ELSE "plan_stale", "txWrite")
    /\ UNCHANGED <<policy, now, tables, locks, local, tx, resp, seen>>

(* Mutant: the update is unconditional. *)
HandlerWriteBlind(c) ==
    /\ pc[c] = "txWrite"
    /\ rowOwner = None
    /\ rowOwner' = c
    /\ tx' = [tx EXCEPT ![c].wrote = TRUE]
    /\ Goto(c, IF req[c].key = None THEN "txAudit" ELSE "txComplete")
    /\ UNCHANGED <<policy, now, tables, keyOwner, local, reply, resp, seen>>

(* ... and update it on condition that it has not moved.  The UPDATE waits *)
(* for the row and evaluates its condition on the row it gets.  The task   *)
(* enqueued with it is one more write of the same transaction, under a     *)
(* unique key made of the new version: an effect stands for both.          *)
HandlerWrite(c) ==
    /\ pc[c] = "txWrite"
    /\ rowOwner = None
    /\ IF version = plan[c].snap
       THEN /\ rowOwner' = c
            /\ tx' = [tx EXCEPT ![c].wrote = TRUE]
            /\ Goto(c, IF req[c].key = None THEN "txAudit" ELSE "txComplete")
            /\ UNCHANGED reply
       ELSE TxReject(c, "plan_stale") /\ UNCHANGED <<rowOwner, tx>>
    /\ UNCHANGED <<policy, now, tables, keyOwner, local, resp, seen>>

Result(c) == plan[c].snap + 1

(* Mutant: the record stays running. *)
TxCompleteForgotten(c) ==
    /\ pc[c] = "txComplete"
    /\ Goto(c, "txAudit")
    /\ UNCHANGED <<policy, now, tables, locks, local, tx, reply, resp, seen>>

(* Complete: the running row of this transaction becomes completed. *)
TxComplete(c) ==
    /\ pc[c] = "txComplete"
    /\ tx[c].idem = Record(c, "running", None)
    /\ tx' = [tx EXCEPT ![c].idem = Record(c, "completed", Result(c))]
    /\ Goto(c, "txAudit")
    /\ UNCHANGED <<policy, now, tables, locks, local, reply, resp, seen>>

(* recordRequired: the allowed or previewed event joins the transaction. *)
TxAudit(c) ==
    /\ pc[c] = "txAudit"
    /\ tx' = [tx EXCEPT ![c].audit = TRUE]
    /\ Goto(c, "txCommit")
    /\ UNCHANGED <<policy, now, tables, locks, local, reply, resp, seen>>

(* The writes of one transaction become visible together. *)
ApplyTx(c) ==
    /\ idem' = IF tx[c].idem = None THEN idem ELSE [idem EXCEPT ![req[c].key] = tx[c].idem]
    /\ version' = IF tx[c].wrote THEN version + 1 ELSE version
    /\ effects' = IF tx[c].wrote
                  THEN effects \cup {[call |-> c, key |-> req[c].key, input |-> req[c].input,
                                      plan |-> plan[c], fp |-> dec[c], result |-> Result(c)]}
                  ELSE effects
    /\ audits' = IF tx[c].audit THEN audits \cup {c} ELSE audits
    /\ plans' = (plans \ tx[c].dels) \cup (IF tx[c].save = None THEN {} ELSE {tx[c].save})

(* Preview answers its plan, Execute a stored result or its own. *)
Success(c) ==
    IF c \in Previews THEN None
    ELSE IF found[c] # None THEN found[c].result ELSE Result(c)

Committed(c) ==
    /\ pc[c] = "txCommit"
    /\ ApplyTx(c)
    /\ ReleaseLocks(c)
    /\ reply' = [reply EXCEPT ![c] = Answer("ok", "ok", Success(c))]
    /\ Goto(c, "reply")
    /\ UNCHANGED <<policy, now, local, resp, seen>>

(* Mutant: a failed commit is reported as a rejection. *)
CommitInDoubtRejected(c) ==
    /\ pc[c] = "txCommit"
    /\ tx' = [tx EXCEPT ![c].orphan = "commit"]
    /\ Reject(c, "internal")
    /\ UNCHANGED <<policy, now, tables, locks, local, resp, seen>>

(* CommitFailed: the call answers that the outcome is unknown while the    *)
(* server may still apply the commit it has been sent.                     *)
CommitInDoubt(c) ==
    /\ pc[c] = "txCommit"
    /\ tx' = [tx EXCEPT ![c].orphan = "commit"]
    /\ reply' = [reply EXCEPT ![c] = Answer("unknown", "internal", None)]
    /\ Goto(c, "reply")
    /\ UNCHANGED <<policy, now, tables, locks, local, resp, seen>>

(* The deferred Abort deletes the reservation while it is still running;   *)
(* whether it succeeds or not the callback's error rolls back.             *)
TxAbort(c) ==
    /\ pc[c] = "txAbort"
    /\ tx' = IF tx[c].idem.status = "running" THEN [tx EXCEPT ![c].idem = None] ELSE tx
    /\ Goto(c, "rollback")
    /\ UNCHANGED <<policy, now, tables, locks, local, reply, resp, seen>>

RolledBack(c) ==
    /\ pc[c] = "rollback"
    /\ ReleaseLocks(c)
    /\ Goto(c, "reply")
    /\ UNCHANGED <<policy, now, tables, local, reply, resp, seen>>

(* RollbackFailed: an atomicity failure is answered, the server drops the  *)
(* transaction when it notices.                                            *)
RollbackInDoubt(c) ==
    /\ pc[c] = "rollback"
    /\ tx' = [tx EXCEPT ![c].orphan = "abort"]
    /\ reply' = [reply EXCEPT ![c] = Answer("unknown", "internal", None)]
    /\ Goto(c, "reply")
    /\ UNCHANGED <<policy, now, tables, locks, local, resp, seen>>

(* The server ends a transaction nobody waits for any more. *)
OrphanCommit(c) ==
    /\ tx[c].orphan = "commit"
    /\ ApplyTx(c)
    /\ ReleaseLocks(c)
    /\ UNCHANGED <<policy, now, pc, local, reply, resp, seen>>

OrphanAbort(c) ==
    /\ tx[c].orphan # "no"
    /\ ReleaseLocks(c)
    /\ UNCHANGED <<policy, now, tables, pc, local, reply, resp, seen>>

-----------------------------------------------------------------------------
(* Execute, the replay of a stored record: its own transaction when Lookup *)
(* found it first, the execution's transaction when Reserve did.           *)

ReplayRead(c) ==
    /\ pc[c] = "replayRead"
    /\ Begin(c)
    /\ found' = [found EXCEPT ![c] = idem[req[c].key]]
    /\ TxProceed(c, IF idem[req[c].key] = None THEN "idempotency_in_progress" ELSE "ok", "replayIntent")
    /\ UNCHANGED <<policy, now, tables, locks, req, plan, dec, tx, resp>>

ReplayIntent(c) ==
    /\ pc[c] = "replayIntent"
    /\ TxProceed(c, IntentCode, "replayImpact")
    /\ UNCHANGED <<policy, now, tables, locks, local, tx, resp, seen>>

(* Mutant: a replay is not authorized. *)
CompletedCodeUnauthorized(r, rec) ==
    IF r.plan # None /\ rec.plan # r.plan THEN "idempotency_conflict"
    ELSE IF rec.input # r.input THEN "idempotency_conflict"
    ELSE IF rec.status # "completed" THEN "idempotency_in_progress"
    ELSE "ok"

(* completedResult: the record answers this request, its execution has     *)
(* ended, and the decision it was made under is the one in force.          *)
CompletedCode(r, rec) ==
    IF r.plan # None /\ rec.plan # r.plan THEN "idempotency_conflict"
    ELSE IF rec.input # r.input THEN "idempotency_conflict"
    ELSE IF rec.status # "completed" THEN "idempotency_in_progress"
    ELSE ImpactCode(rec.input, rec.fp)

ReplayImpact(c) ==
    /\ pc[c] = "replayImpact"
    /\ TxProceed(c, CompletedCode(req[c], found[c]), "txCommit")
    /\ UNCHANGED <<policy, now, tables, locks, local, tx, resp, seen>>

-----------------------------------------------------------------------------
(* Answers, failures and the environment. *)

(* fail and recordDetached: the best-effort audit event is recorded or     *)
(* reported lost, and the call returns either way.                         *)
Respond(c) ==
    /\ pc[c] = "reply"
    /\ resp' = [resp EXCEPT ![c] = reply[c]]
    /\ reply' = [reply EXCEPT ![c] = None]
    /\ Goto(c, "done")
    /\ UNCHANGED <<policy, now, tables, locks, local, tx, seen>>

PreTxLabels == {"plan", "planImpact", "lookup", "resolve", "impact"}
TxLabels == {"saveImpact", "savePlan", "txImpact", "txReserve", "txRead", "txWrite", "txComplete",
             "txAudit", "replayIntent", "replayImpact"}
BeginLabels == {"saveIntent", "txIntent", "replayRead"}
EndLabels == {"txCommit", "txAbort", "rollback"}

(* Any dependency or Handler call may fail or be cancelled: before the     *)
(* transaction, at its begin, or inside it.                                *)
DependencyFailure(c) ==
    /\ \/ pc[c] \in PreTxLabels \cup BeginLabels /\ Reject(c, "internal")
       \/ pc[c] \in TxLabels /\ TxReject(c, "internal")
    /\ UNCHANGED <<policy, now, tables, locks, local, tx, resp, seen>>

(* The process of the call dies.  Its transaction is left to the server,   *)
(* which may still apply a commit it has been sent.                        *)
Crash(c) ==
    /\ pc[c] \notin {"idle", "done", "dead"}
    /\ Goto(c, "dead")
    /\ reply' = [reply EXCEPT ![c] = None]
    /\ tx' = IF pc[c] \in TxLabels \cup EndLabels
             THEN [tx EXCEPT ![c].orphan = IF pc[c] = "txCommit" THEN "commit" ELSE "abort"]
             ELSE tx
    /\ UNCHANGED <<policy, now, tables, locks, local, resp, seen>>

InTx(c) == pc[c] \in TxLabels \cup EndLabels \/ tx[c].orphan # "no"

(* Grants change at any time, by transactions of their own. *)
ChangePolicy ==
    /\ policy' \in (Policies \cup {Deny}) \ {policy}
    /\ seen' = [c \in Calls |-> IF InTx(c) THEN seen[c] \cup {policy'} ELSE seen[c]]
    /\ UNCHANGED <<now, tables, locks, pc, local, tx, reply, resp>>

Tick ==
    /\ now < MaxTime
    /\ now' = now + 1
    /\ UNCHANGED <<policy, tables, locks, pc, local, tx, reply, resp, seen>>

PreviewStep(c) ==
    \/ PreviewPlan(c) \/ PreviewImpact(c)
    \/ PreviewTxIntent(c) \/ PreviewTxImpact(c) \/ PreviewSave(c)

ExecuteStep(c) ==
    \/ ExecuteLookup(c) \/ ExecuteResolve(c) \/ ExecuteImpact(c)
    \/ TxIntent(c) \/ TxImpact(c) \/ TxReserve(c) \/ HandlerRead(c) \/ HandlerWrite(c) \/ TxComplete(c)
    \/ TxAbort(c)
    \/ ReplayRead(c) \/ ReplayIntent(c) \/ ReplayImpact(c)

EndStep(c) ==
    \/ TxAudit(c) \/ Committed(c) \/ CommitInDoubt(c) \/ RolledBack(c) \/ RollbackInDoubt(c)
    \/ Respond(c)

Orphan(c) == OrphanCommit(c) \/ OrphanAbort(c)

Next ==
    \/ \E c \in Previews : PreviewStart(c) \/ PreviewStep(c)
    \/ \E c \in Executes : ExecuteStart(c) \/ ExecuteStep(c)
    \/ \E c \in Calls : EndStep(c) \/ DependencyFailure(c) \/ Crash(c) \/ Orphan(c)
    \/ CleanupExpiredPlans
    \/ ChangePolicy
    \/ Tick

Fairness ==
    /\ \A c \in Previews : WF_vars(PreviewStep(c))
    /\ \A c \in Executes : WF_vars(ExecuteStep(c))
    /\ \A c \in Calls : WF_vars(EndStep(c)) /\ WF_vars(Orphan(c))

Spec == Init /\ [][Next]_vars
FairSpec == Spec /\ Fairness

-----------------------------------------------------------------------------
(* Properties. *)

Labels == {"idle", "reply", "done", "dead"} \cup PreTxLabels \cup BeginLabels \cup TxLabels \cup EndLabels

(* The tables and the locals of Preview and Execute hold values of the     *)
(* types their Go declarations and columns give them.                      *)
TypeOK ==
    /\ policy \in Policies \cup {Deny}
    /\ now \in 0..MaxTime
    /\ version \in Nat
    /\ plans \subseteq PlanType
    /\ idem \in [Keys -> RecordType \cup {None}]
    /\ effects \subseteq EffectType
    /\ audits \subseteq Calls
    /\ keyOwner \in [Keys -> Executes \cup {None}]
    /\ rowOwner \in Executes \cup {None}
    /\ pc \in [Calls -> Labels]
    /\ req \in [Calls -> RequestType \cup {None}]
    /\ plan \in [Calls -> PlanType \cup {None}]
    /\ dec \in [Calls -> Policies \cup {None}]
    /\ found \in [Calls -> RecordType \cup {None}]
    /\ tx \in [Calls -> TxType]
    /\ reply \in [Calls -> AnswerType \cup {None}]
    /\ resp \in [Calls -> AnswerType \cup {None}]
    /\ seen \in [Calls -> SUBSET (Policies \cup {Deny})]

(* Retries, concurrent duplicates, crashes and commits in doubt            *)
(* notwithstanding, a key is executed at most once and so is a call:       *)
(* Reserve, inside the transaction, is what decides.                       *)
AtMostOncePerKey ==
    \A e, f \in effects : (e.call = f.call \/ (e.key # None /\ e.key = f.key)) => e = f

(* ADR-002: the reservation, the mutation, the completed result and the    *)
(* allowed event commit together.  A visible record is a completed one,    *)
(* and says exactly what the effect under its key was.                     *)
EvidenceAtomic ==
    /\ audits \cap Executes = {e.call : e \in effects}
    /\ \A e \in effects : e.key # None => idem[e.key] # None
    /\ \A k \in Keys : idem[k] # None =>
        \E e \in effects : /\ e.key = k
                           /\ idem[k] = [input |-> e.input, plan |-> e.plan, fp |-> e.fp,
                                         status |-> "completed", result |-> e.result]

(* What Execute does is what Preview showed: the effect of a call that     *)
(* named a plan is the effect of that plan, made for that input, under the *)
(* decision it was previewed with and within its row limit.                *)
PlanFidelity ==
    \A e \in effects :
        /\ req[e.call].plan # None => e.plan = req[e.call].plan
        /\ e.plan.input = req[e.call].input
        /\ e.plan.fp = e.fp /\ ~Exceeds(e.fp, e.input)

(* ADR-002: revocation before a transaction or a replay prevents the write *)
(* and the disclosure.  The decision behind an effect, a replayed result   *)
(* or a saved plan was in force at some time since its transaction began.  *)
AuthorizedInTransaction ==
    /\ \A e \in effects : e.fp \in seen[e.call]
    /\ \A c \in Executes : resp[c] # None /\ resp[c].kind = "ok" /\ found[c] # None => found[c].fp \in seen[c]
    /\ \A c \in Previews : resp[c] # None /\ resp[c].kind = "ok" => plan[c].fp \in seen[c]

(* No lost update: the committed executions of the Handler saw one another *)
(* in some order, each advancing the version it had planned from.          *)
SerialVersions ==
    /\ {e.result : e \in effects} = 1..version
    /\ \A e, f \in effects : e.result = f.result => e = f

(* The effects are those of a serial execution in which every key and      *)
(* every call occurs at most once (Reserve, the Handler's UPDATE).         *)
OnceAndInOrder == AtMostOncePerKey /\ SerialVersions

(* A plan that Preview has answered can be executed until it expires,      *)
(* whatever cleanups and other Previews run meanwhile (DeleteExpired).     *)
IssuedPlanKept ==
    \A c \in Previews : resp[c] # None /\ resp[c].kind = "ok" =>
        plan[c] \in plans \/ plan[c].exp <= now

(* A plan is a promise: it is kept until it expires, what Execute does is  *)
(* what it says, and only under a decision in force in the transaction     *)
(* that commits it (Preview, Execute, DeleteExpired).                      *)
PlansHonoured == IssuedPlanKept /\ PlanFidelity /\ AuthorizedInTransaction

(* Why a call was turned away.  A conflict means that the key was used for *)
(* another input or plan, a plan that cannot be found has expired, and     *)
(* with this store nobody is told of an execution in progress: a running   *)
(* record is never visible outside its transaction.                        *)
RejectionsExplained ==
    \A c \in Executes : resp[c] # None =>
        /\ resp[c].code = "idempotency_conflict" =>
            LET rec == idem[req[c].key] IN
            rec # None /\ (rec.input # req[c].input \/ rec.plan # req[c].plan)
        /\ resp[c].code = "plan_not_found" => req[c].plan.exp <= now
        /\ resp[c].code # "idempotency_in_progress"

(* A lost response can be retried: the record a key was completed with is  *)
(* never changed nor removed, by a late Abort or by anything else.         *)
CompletedIsFinal ==
    [][\A k \in Keys : idem[k] # None => idem'[k] = idem[k]]_vars

(* Every call that has started returns or dies with its process, and every *)
(* row lock is given up: Reserve and the Handler's UPDATE never wait for   *)
(* one another in a circle.                                                *)
CallsEnd ==
    /\ \A c \in Calls : pc[c] # "idle" ~> pc[c] \in {"done", "dead"}
    /\ \A k \in Keys : keyOwner[k] # None ~> keyOwner[k] = None

Asked(c) == IF req[c] = None THEN None ELSE [key |-> req[c].key, input |-> req[c].input]
Given(c) == IF resp[c] = None THEN None ELSE [kind |-> resp[c].kind, result |-> resp[c].result]

Command == INSTANCE IdempotentCommand WITH
    Calls <- Executes,
    asked <- [c \in Executes |-> Asked(c)],
    done <- {[call |-> e.call, key |-> e.key, input |-> e.input, result |-> e.result] : e \in effects},
    total <- version,
    answer <- [c \in Executes |-> Given(c)]

(* Execute implements the idempotent command: "ok" is the result of an     *)
(* effect of this request, "rejected" promises that the call never takes   *)
(* effect, only an outcome in doubt promises nothing.                      *)
ImplementsCommand == Command!CmdSpec

=============================================================================
