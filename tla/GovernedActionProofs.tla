------------------------ MODULE GovernedActionProofs ------------------------
(***************************************************************************)
(* Execute takes effect at most once per key, its evidence commits with    *)
(* it, no update is lost, plans are honoured and rejections are true, for  *)
(* any number of calls, inputs, keys and policies.                         *)
(***************************************************************************)
EXTENDS GovernedAction, TLAPS

EndedLabels == {"reply", "done", "dead"}

(* Where the locals of Preview and Execute are set. *)
KeyLabels == {"lookup", "replayRead", "replayIntent", "replayImpact", "txReserve", "txComplete"}
PlanLabels == {"planImpact", "saveIntent", "saveImpact", "savePlan", "impact",
               "txIntent", "txImpact", "txReserve", "txRead", "txWrite", "txComplete"}
DecLabels == {"txReserve", "txRead", "txWrite", "txComplete"}
FoundLabels == {"replayIntent", "replayImpact"}

(* Labels at which the transaction has written nothing yet. *)
CleanLabels == {"idle", "saveImpact", "savePlan", "txImpact", "txReserve", "replayIntent", "replayImpact"}
                 \cup PreTxLabels \cup BeginLabels

(* Labels at which nothing is known of a stored record. *)
MainLabels == {"txIntent", "txImpact", "txReserve", "txRead", "txWrite", "txComplete", "txAudit",
               "resolve", "impact", "lookup", "replayRead", "idle",
               "plan", "planImpact", "saveIntent", "saveImpact", "savePlan"}

LocalsSet(c) ==
    /\ pc[c] # "idle" => req[c] # None
    /\ pc[c] \in KeyLabels => req[c].key # None
    /\ pc[c] \in PlanLabels => plan[c] # None
    /\ pc[c] \in DecLabels => dec[c] # None
    /\ pc[c] \in FoundLabels => found[c] # None
    /\ pc[c] \in MainLabels => found[c] = None
    /\ c \in Previews => pc[c] \notin {"lookup", "resolve", "impact", "txIntent", "txImpact", "txReserve",
                                       "txRead", "txWrite", "txComplete", "replayRead", "replayIntent",
                                       "replayImpact", "txAbort"}
    /\ c \in Executes => pc[c] \notin {"plan", "planImpact", "saveIntent", "saveImpact", "savePlan"}

(* What a transaction has written at each label. *)
RunningRecord(c) == IF req[c].key = None THEN None ELSE Record(c, "running", None)
CompletedRecord(c) == IF req[c].key = None THEN None ELSE Record(c, "completed", Result(c))

(* The writes of a transaction that may commit are all there: the mutation *)
(* with its record and its event, or none of them.                         *)
Complete(c) ==
    IF c \in Executes /\ found[c] = None
    THEN /\ tx[c].wrote /\ req[c] # None /\ plan[c] # None /\ dec[c] # None
         /\ tx[c].idem = CompletedRecord(c)
    ELSE ~tx[c].wrote /\ tx[c].idem = None /\ (c \in Executes => ~tx[c].audit)

Writes(c) ==
    /\ tx[c].orphan # "no" => pc[c] \in EndedLabels
    /\ pc[c] \in CleanLabels => tx[c] = EmptyTx
    /\ pc[c] \in {"txRead", "txWrite"} =>
        ~tx[c].wrote /\ ~tx[c].audit /\ tx[c].idem = RunningRecord(c)
    /\ pc[c] = "txComplete" => tx[c].wrote /\ ~tx[c].audit /\ tx[c].idem = RunningRecord(c)
    /\ pc[c] = "txAudit" => Complete(c) /\ ~tx[c].audit
    /\ pc[c] = "txCommit" \/ tx[c].orphan = "commit" =>
        Complete(c) /\ (c \in Executes /\ found[c] = None => tx[c].audit)
    /\ pc[c] = "txAbort" => tx[c].idem # None
    /\ pc[c] \in EndedLabels /\ tx[c].orphan = "no" => tx[c] = EmptyTx

CallInv == \A c \in Calls : LocalsSet(c) /\ Writes(c)

(* A transaction that has inserted a key or updated the Counter row holds  *)
(* the row's lock, and while a lock is held the committed row stays.       *)
LockInv ==
    /\ \A c \in Calls : tx[c].idem # None => c \in Executes /\ req[c] # None /\ req[c].key \in Keys
                                              /\ keyOwner[req[c].key] = c
    /\ \A c \in Calls : tx[c].wrote => c \in Executes /\ rowOwner = c /\ plan[c] # None /\ version = plan[c].snap
    /\ \A k \in Keys : keyOwner[k] # None => idem[k] = None

(* A call whose effect is committed has no transaction left. *)
EffectEnded == \A e \in effects : pc[e.call] \in EndedLabels /\ tx[e.call] = EmptyTx

(* The inductive invariant. *)
IInv ==
    /\ TypeOK
    /\ CallInv
    /\ LockInv
    /\ EffectEnded
    /\ AtMostOncePerKey
    /\ EvidenceAtomic
    /\ SerialVersions

-----------------------------------------------------------------------------
(* Preview, Execute and the server start in the invariant. *)
LEMMA InitIInv == Init => IInv
  <1> SUFFICES ASSUME Init PROVE IInv
    BY Zenon
  <1>1. TypeOK
    BY TimeAssumption DEF Init, TypeOK, TxType, EmptyTx, Labels
  <1>2. CallInv
    BY Zenon, CallAssumption DEF Init, CallInv, LocalsSet, Writes, EmptyTx, CleanLabels, EndedLabels, KeyLabels,
        PlanLabels, DecLabels, FoundLabels, PreTxLabels, BeginLabels
  <1>3. LockInv /\ EffectEnded /\ AtMostOncePerKey
    BY Zenon DEF Init, LockInv, EffectEnded, AtMostOncePerKey, EmptyTx
  <1>4. EvidenceAtomic /\ SerialVersions
    BY DEF Init, EvidenceAtomic, SerialVersions
  <1> QED BY Zenon, <1>1, <1>2, <1>3, <1>4 DEF IInv

(* The evidence is a matter of the tables of Execute. *)
LEMMA EvidenceSame ==
    ASSUME EvidenceAtomic, audits' \cap Executes = audits \cap Executes, effects' = effects, idem' = idem
    PROVE  EvidenceAtomic'
  <1>1. audits' \cap Executes = {e.call : e \in effects'}
    BY Zenon DEF EvidenceAtomic
  <1>2. \A e \in effects' : e.key # None => idem'[e.key] # None
    BY Zenon DEF EvidenceAtomic
  <1>3. ASSUME NEW k \in Keys, idem'[k] # None
        PROVE  \E e \in effects' : /\ e.key = k
                                   /\ idem'[k] = [input |-> e.input, plan |-> e.plan, fp |-> e.fp,
                                                  status |-> "completed", result |-> e.result]
    <2>1. idem[k] # None
      BY Zenon, <1>3
    <2>2. PICK e \in effects : /\ e.key = k
                               /\ idem[k] = [input |-> e.input, plan |-> e.plan, fp |-> e.fp,
                                             status |-> "completed", result |-> e.result]
      BY Zenon, <2>1 DEF EvidenceAtomic
    <2>3. e \in effects' /\ idem'[k] = idem[k]
      BY Zenon
    <2> QED BY Zenon, <2>2, <2>3
  <1> QED BY Zenon, <1>1, <1>2, <1>3 DEF EvidenceAtomic

(* A step of one call that touches no table: it is enough to look at that  *)
(* call and at the locks.                                                  *)
LEMMA CallStep ==
    ASSUME IInv, NEW c \in Calls, UNCHANGED tables, TypeOK', LockInv',
           \A d \in Calls \ {c} : /\ pc'[d] = pc[d] /\ req'[d] = req[d] /\ plan'[d] = plan[d]
                                  /\ dec'[d] = dec[d] /\ found'[d] = found[d] /\ tx'[d] = tx[d],
           LocalsSet(c)', Writes(c)',
           pc[c] \in EndedLabels => pc'[c] \in EndedLabels /\ (tx'[c] = tx[c] \/ tx'[c] = EmptyTx)
    PROVE  IInv'
  <1>1. CallInv'
    <2> SUFFICES ASSUME NEW d \in Calls, d # c PROVE LocalsSet(d)' /\ Writes(d)'
      BY Zenon DEF CallInv
    <2>1. LocalsSet(d) /\ Writes(d)
      BY Zenon DEF IInv, CallInv
    <2>2. LocalsSet(d)'
      BY Zenon, <2>1 DEF LocalsSet
    <2>3. /\ RunningRecord(d)' = RunningRecord(d) /\ CompletedRecord(d)' = CompletedRecord(d)
          /\ Complete(d)' <=> Complete(d)
      BY Zenon DEF Complete, RunningRecord, CompletedRecord, Record, Result
    <2>4. Writes(d)'
      BY Zenon, <2>1, <2>3 DEF Writes
    <2> QED BY Zenon, <2>2, <2>4
  <1>2. EffectEnded'
    BY Zenon DEF IInv, EffectEnded, tables, TypeOK, EffectType, Calls
  <1>3. AtMostOncePerKey' /\ SerialVersions'
    <2>1. AtMostOncePerKey /\ SerialVersions
      BY Zenon DEF IInv
    <2> QED BY Zenon, <2>1 DEF AtMostOncePerKey, SerialVersions, tables
  <1>4. EvidenceAtomic'
    <2>1. EvidenceAtomic
      BY Zenon DEF IInv
    <2> QED BY Zenon, <2>1, EvidenceSame DEF tables
  <1> QED BY Zenon, <1>1, <1>2, <1>3, <1>4 DEF IInv

(* A transaction that has written nothing. *)
LEMMA EmptyFields ==
    /\ EmptyTx \in TxType
    /\ EmptyTx.idem = None /\ ~EmptyTx.wrote /\ ~EmptyTx.audit /\ EmptyTx.orphan = "no"
  BY Zenon DEF EmptyTx, TxType

(* The same for a step that touches no lock either. *)
LEMMA LocalStep ==
    ASSUME IInv, NEW c \in Calls, UNCHANGED <<tables, locks>>, TypeOK',
           \A d \in Calls \ {c} : /\ pc'[d] = pc[d] /\ req'[d] = req[d] /\ plan'[d] = plan[d]
                                  /\ dec'[d] = dec[d] /\ found'[d] = found[d] /\ tx'[d] = tx[d],
           LocalsSet(c)', Writes(c)',
           tx'[c].idem # None => tx[c].idem # None /\ req'[c] = req[c],
           tx'[c].wrote => tx[c].wrote /\ plan'[c] = plan[c],
           pc[c] \in EndedLabels => pc'[c] \in EndedLabels /\ tx'[c] = tx[c]
    PROVE  IInv'
  <1>1. LockInv'
    BY DEF IInv, LockInv, tables, locks
  <1> QED BY Zenon, <1>1, CallStep

-----------------------------------------------------------------------------
(* Where a check sends its call. *)
LEMMA ProceedMoves ==
    ASSUME TypeOK, NEW c \in Calls, NEW code \in Codes, NEW l \in Labels, Proceed(c, code, l)
    PROVE  /\ pc' = [pc EXCEPT ![c] = IF code = "ok" THEN l ELSE "reply"]
           /\ pc' \in [Calls -> Labels]
           /\ reply' \in [Calls -> AnswerType \cup {None}]
  <1>1. pc' = [pc EXCEPT ![c] = IF code = "ok" THEN l ELSE "reply"]
    BY Zenon DEF Proceed, Goto, Reject
  <1>2. pc' \in [Calls -> Labels]
    BY Zenon, <1>1 DEF TypeOK, Labels
  <1>3. Answer("rejected", code, None) \in AnswerType
    BY Zenon DEF Answer, AnswerType
  <1>4. reply' \in [Calls -> AnswerType \cup {None}]
    BY Zenon, <1>3 DEF TypeOK, Proceed, Reject
  <1> QED BY Zenon, <1>1, <1>2, <1>4

LEMMA TxProceedMoves ==
    ASSUME TypeOK, NEW c \in Calls, NEW code \in Codes, NEW l \in Labels, TxProceed(c, code, l)
    PROVE  /\ pc' = [pc EXCEPT ![c] = IF code = "ok" THEN l ELSE IF tx[c].idem = None THEN "rollback" ELSE "txAbort"]
           /\ pc' \in [Calls -> Labels]
           /\ reply' \in [Calls -> AnswerType \cup {None}]
  <1>1. pc' = [pc EXCEPT ![c] = IF code = "ok" THEN l ELSE IF tx[c].idem = None THEN "rollback" ELSE "txAbort"]
    BY Zenon DEF TxProceed, Goto, TxReject
  <1>2. pc' \in [Calls -> Labels]
    BY Zenon, <1>1 DEF TypeOK, Labels, EndLabels
  <1>3. Answer("rejected", code, None) \in AnswerType
    BY Zenon DEF Answer, AnswerType
  <1>4. reply' \in [Calls -> AnswerType \cup {None}]
    BY Zenon, <1>3 DEF TypeOK, TxProceed, TxReject
  <1> QED BY Zenon, <1>1, <1>2, <1>4

(* Every check answers with a code. *)
LEMMA CodeTypes ==
    /\ IntentCode \in Codes /\ PreviewCode \in Codes
    /\ \A i, p : ImpactCode(i, p) \in Codes /\ ExecuteCode(i, p) \in Codes
                 /\ LoadCode(i, p) \in Codes /\ CompletedCode(i, p) \in Codes
  <1>1. IntentCode \in Codes
    BY Zenon DEF IntentCode, Codes
  <1>2. PreviewCode \in Codes
    BY Zenon, <1>1 DEF PreviewCode, Codes
  <1>3. ASSUME NEW i, NEW p PROVE ImpactCode(i, p) \in Codes
    BY Zenon DEF ImpactCode, Codes
  <1>4. ASSUME NEW h, NEW k PROVE ExecuteCode(h, k) \in Codes
    BY Zenon DEF ExecuteCode, Codes
  <1>5. ASSUME NEW h, NEW i PROVE LoadCode(h, i) \in Codes
    BY Zenon DEF LoadCode, Codes
  <1>6. ASSUME NEW r, NEW rec PROVE CompletedCode(r, rec) \in Codes
    BY Zenon, <1>3 DEF CompletedCode, Codes
  <1> QED BY Zenon, <1>1, <1>2, <1>3, <1>4, <1>5, <1>6

(* Preview's validation and first authorization. *)
LEMMA PreviewStartKeeps ==
    ASSUME IInv, NEW c \in Previews, PreviewStart(c)
    PROVE  IInv'
  <1>0. c \in Calls /\ LocalsSet(c) /\ Writes(c) /\ TypeOK
    BY Zenon DEF IInv, CallInv, Calls
  <1>1. PICK i \in Inputs : req' = [req EXCEPT ![c] = [input |-> i, plan |-> None, key |-> None]]
    BY Zenon DEF PreviewStart
  <1>2. /\ pc' = [pc EXCEPT ![c] = IF PreviewCode = "ok" THEN "plan" ELSE "reply"]
        /\ pc' \in [Calls -> Labels] /\ reply' \in [Calls -> AnswerType \cup {None}]
    BY Zenon, <1>0, CodeTypes, ProceedMoves DEF PreviewStart, Labels, PreTxLabels
  <1>3. UNCHANGED <<policy, now, version, plans, idem, effects, audits, keyOwner, rowOwner, plan, dec, found, tx, resp, seen>>
    BY Zenon DEF PreviewStart, tables, locks
  <1>4. TypeOK'
    <2>1. [input |-> i, plan |-> None, key |-> None] \in RequestType
      BY Zenon DEF RequestType
    <2> QED BY Zenon, <1>0, <1>1, <1>2, <1>3, <2>1 DEF TypeOK
  <1>5. pc[c] = "idle" /\ pc'[c] \in {"plan", "reply"} /\ req'[c] # None
    BY <1>0, <1>1, <1>2, NoneAssumption DEF PreviewStart, TypeOK, RequestType
  <1>6. LocalsSet(c)'
    BY Zenon, <1>0, <1>3, <1>5, CallAssumption DEF LocalsSet, KeyLabels, PlanLabels, DecLabels, FoundLabels, MainLabels
  <1>7. Writes(c)'
    BY Zenon, <1>0, <1>3, <1>5 DEF Writes, EmptyTx, CleanLabels, EndedLabels, PreTxLabels
  <1>8. \A d \in Calls \ {c} : pc'[d] = pc[d] /\ req'[d] = req[d]
    BY Zenon, <1>0, <1>1, <1>2 DEF TypeOK
  <1>9. UNCHANGED <<tables, locks>> /\ tx[c] = EmptyTx
    BY Zenon, <1>0, <1>5 DEF PreviewStart, Writes, CleanLabels
  <1> QED BY <1>0, <1>3, <1>4, <1>5, <1>6, <1>7, <1>8, <1>9, LocalStep DEF EmptyTx, EndedLabels

(* A step that moves one call and touches no table, lock, local or write. *)
LEMMA MoveStep ==
    ASSUME IInv, NEW c \in Calls, NEW l, UNCHANGED <<tables, locks, local, tx, policy, now, resp>>,
           pc' = [pc EXCEPT ![c] = l], pc' \in [Calls -> Labels],
           reply' \in [Calls -> AnswerType \cup {None}], seen' \in [Calls -> SUBSET (Policies \cup {Deny})],
           pc[c] \in EndedLabels => l \in EndedLabels,
           LocalsSet(c)', Writes(c)'
    PROVE  IInv'
  <1>1. TypeOK /\ TypeOK'
    BY Zenon DEF IInv, TypeOK, tables, locks, local
  <1>2. \A d \in Calls \ {c} : pc'[d] = pc[d]
    BY Zenon, <1>1 DEF TypeOK
  <1>3. pc'[c] = l
    BY Zenon, <1>1 DEF TypeOK
  <1> QED BY Zenon, <1>1, <1>2, <1>3, LocalStep DEF local

(* The facts a move needs of its call, label by label. *)
LEMMA TxMove ==
    ASSUME IInv, NEW c \in Calls, NEW code \in Codes, NEW l \in Labels, TxProceed(c, code, l),
           UNCHANGED <<tables, locks, local, tx, policy, now, resp>>,
           seen' \in [Calls -> SUBSET (Policies \cup {Deny})],
           pc[c] \in TxLabels \cup BeginLabels,
           code = "ok" => LocalsSet(c)' /\ Writes(c)'
    PROVE  IInv'
  <1>0. TypeOK /\ LocalsSet(c) /\ Writes(c)
    BY Zenon DEF IInv, CallInv
  <1> DEFINE m == IF code = "ok" THEN l ELSE IF tx[c].idem = None THEN "rollback" ELSE "txAbort"
  <1>1. /\ pc' = [pc EXCEPT ![c] = m]
        /\ pc' \in [Calls -> Labels]
        /\ reply' \in [Calls -> AnswerType \cup {None}]
    BY Zenon, <1>0, TxProceedMoves
  <1>2. pc'[c] = m
    BY Zenon, <1>0, <1>1 DEF TypeOK
  <1>3. ASSUME code # "ok" PROVE LocalsSet(c)' /\ Writes(c)'
    <2>1. pc'[c] \in {"rollback", "txAbort"} /\ pc[c] # "idle" /\ (pc'[c] = "txAbort" => tx[c].idem # None)
      BY Zenon, <1>2, <1>3 DEF TxLabels, BeginLabels
    <2>2. tx[c].idem # None => c \in Executes
      BY Zenon DEF IInv, LockInv
    <2>3. LocalsSet(c)'
      BY Zenon, <1>0, <2>1, <2>2, CallAssumption DEF LocalsSet, local, KeyLabels, PlanLabels, DecLabels, FoundLabels, MainLabels
    <2>4. Writes(c)'
      BY Zenon, <1>0, <2>1 DEF Writes, CleanLabels, EndedLabels, PreTxLabels, BeginLabels, TxLabels
    <2> QED BY Zenon, <2>3, <2>4
  <1>4. pc[c] \notin EndedLabels
    BY Zenon DEF EndedLabels, TxLabels, BeginLabels
  <1> HIDE DEF m
  <1> QED BY Zenon, <1>1, <1>3, <1>4, MoveStep

LEMMA PreviewImpactKeeps ==
    ASSUME IInv, NEW c \in Previews, PreviewImpact(c)
    PROVE  IInv'
  <1>0. c \in Calls /\ LocalsSet(c) /\ Writes(c) /\ TypeOK /\ pc[c] = "planImpact"
    BY Zenon DEF IInv, CallInv, Calls, PreviewImpact
  <1> DEFINE m == IF ImpactCode(req[c].input, None) = "ok" THEN "saveIntent" ELSE "reply"
  <1>1. /\ pc' = [pc EXCEPT ![c] = m]
        /\ pc' \in [Calls -> Labels] /\ reply' \in [Calls -> AnswerType \cup {None}]
    BY Zenon, <1>0, CodeTypes, ProceedMoves DEF PreviewImpact, Labels, BeginLabels
  <1>2. pc'[c] = m /\ m \in {"saveIntent", "reply"}
    BY Zenon, <1>0, <1>1 DEF TypeOK
  <1>3. UNCHANGED <<policy, now, tables, locks, local, tx, resp, seen>>
    BY Zenon DEF PreviewImpact
  <1>4. LocalsSet(c)'
    BY Zenon, <1>0, <1>2, <1>3, CallAssumption DEF LocalsSet, local, KeyLabels, PlanLabels, DecLabels, FoundLabels, MainLabels
  <1>5. Writes(c)'
    BY Zenon, <1>0, <1>2, <1>3 DEF Writes, EmptyTx, CleanLabels, EndedLabels, PreTxLabels, BeginLabels
  <1> HIDE DEF m
  <1>6. seen' \in [Calls -> SUBSET (Policies \cup {Deny})]
    BY Zenon, <1>0, <1>3 DEF TypeOK
  <1> QED BY Zenon, <1>0, <1>1, <1>3, <1>4, <1>5, <1>6, MoveStep DEF EndedLabels

LEMMA PreviewTxIntentKeeps ==
    ASSUME IInv, NEW c \in Previews, PreviewTxIntent(c)
    PROVE  IInv'
  <1>0. c \in Calls /\ LocalsSet(c) /\ Writes(c) /\ TypeOK /\ pc[c] = "saveIntent"
    BY Zenon DEF IInv, CallInv, Calls, PreviewTxIntent
  <1>1. /\ UNCHANGED <<policy, now, tables, locks, local, tx, resp>>
        /\ TxProceed(c, IntentCode, "saveImpact")
        /\ seen' \in [Calls -> SUBSET (Policies \cup {Deny})]
    BY Zenon, <1>0 DEF PreviewTxIntent, Begin, TypeOK
  <1>2. "saveImpact" \in Labels /\ pc[c] \in TxLabels \cup BeginLabels
    BY Zenon, <1>0 DEF Labels, TxLabels, BeginLabels
  <1>3. ASSUME IntentCode = "ok" PROVE LocalsSet(c)' /\ Writes(c)'
    <2>1. pc'[c] = "saveImpact"
      BY <1>0, <1>1, <1>2, <1>3, CodeTypes, TxProceedMoves DEF TypeOK
    <2>2. LocalsSet(c)'
      BY Zenon, <1>0, <1>1, <2>1, CallAssumption DEF LocalsSet, local, KeyLabels, PlanLabels, DecLabels, FoundLabels, MainLabels
    <2>3. Writes(c)'
      BY Zenon, <1>0, <1>1, <2>1 DEF Writes, EmptyTx, CleanLabels, EndedLabels, BeginLabels
    <2> QED BY Zenon, <2>2, <2>3
  <1> QED BY Zenon, <1>0, <1>1, <1>2, <1>3, CodeTypes, TxMove

(* A step of one call whose transaction has written nothing. *)
LEMMA CleanMove ==
    ASSUME IInv, NEW c \in Calls, NEW l, pc[c] \in CleanLabels,
           UNCHANGED <<tables, locks, req, tx, policy, now, resp>>,
           pc' = [pc EXCEPT ![c] = l], pc' \in [Calls -> Labels],
           reply' \in [Calls -> AnswerType \cup {None}], seen' \in [Calls -> SUBSET (Policies \cup {Deny})],
           plan' \in [Calls -> PlanType \cup {None}], dec' \in [Calls -> Policies \cup {None}],
           found' \in [Calls -> RecordType \cup {None}],
           \A d \in Calls \ {c} : plan'[d] = plan[d] /\ dec'[d] = dec[d] /\ found'[d] = found[d],
           LocalsSet(c)', Writes(c)'
    PROVE  IInv'
  <1>1. TypeOK /\ TypeOK' /\ Writes(c)
    BY Zenon DEF IInv, CallInv, TypeOK, tables, locks
  <1>2. \A d \in Calls \ {c} : pc'[d] = pc[d]
    BY Zenon, <1>1 DEF TypeOK
  <1>3. tx[c] = EmptyTx /\ pc[c] \notin EndedLabels
    BY Zenon, <1>1 DEF Writes, CleanLabels, EndedLabels, PreTxLabels, BeginLabels
  <1>4. tx'[c].idem = None /\ ~tx'[c].wrote
    BY Zenon, <1>3, EmptyFields
  <1> QED BY Zenon, <1>1, <1>2, <1>3, <1>4, LocalStep

(* Turning such a call away needs nothing of its locals. *)
LEMMA CleanReject ==
    ASSUME NEW c \in Calls, LocalsSet(c), Writes(c), pc[c] \in CleanLabels, pc[c] # "idle",
           UNCHANGED <<req, tx>>, pc'[c] \in {"reply", "rollback"}
    PROVE  LocalsSet(c)' /\ Writes(c)'
  <1>1. LocalsSet(c)'
    BY Zenon DEF LocalsSet, KeyLabels, PlanLabels, DecLabels, FoundLabels, MainLabels
  <1>2. Writes(c)'
    BY Zenon DEF Writes, EmptyTx, CleanLabels, EndedLabels, PreTxLabels, BeginLabels
  <1> QED BY Zenon, <1>1, <1>2

LEMMA PreviewPlanKeeps ==
    ASSUME IInv, NEW c \in Previews, PreviewPlan(c)
    PROVE  IInv'
  <1>0. c \in Calls /\ LocalsSet(c) /\ Writes(c) /\ TypeOK /\ pc[c] = "plan" /\ c \notin Executes
    BY Zenon, CallAssumption DEF IInv, CallInv, Calls, PreviewPlan
  <1>1. pc' = [pc EXCEPT ![c] = "planImpact"] /\ pc'[c] = "planImpact" /\ pc' \in [Calls -> Labels]
    BY Zenon, <1>0 DEF PreviewPlan, Goto, TypeOK, Labels, PreTxLabels
  <1>2. HandlerPlan(req[c].input) \in PlanType
    <2>1. req[c] \in RequestType
      BY Zenon, <1>0 DEF TypeOK, LocalsSet
    <2>2. req[c].input \in Inputs
      BY Zenon, <2>1 DEF RequestType
    <2>3. version \in Nat /\ now + PlanTTL \in Nat
      BY <1>0, TimeAssumption DEF TypeOK
    <2> QED BY Zenon, <2>2, <2>3 DEF HandlerPlan, PlanType
  <1>3. plan' \in [Calls -> PlanType \cup {None}] /\ plan'[c] # None
        /\ \A d \in Calls \ {c} : plan'[d] = plan[d]
    BY Zenon, <1>0, <1>2, NoneAssumption DEF PreviewPlan, TypeOK
  <1>4. UNCHANGED <<policy, now, tables, locks, req, dec, found, tx, reply, resp, seen>>
    BY Zenon DEF PreviewPlan
  <1>5. LocalsSet(c)'
    BY Zenon, <1>0, <1>1, <1>3, <1>4 DEF LocalsSet, KeyLabels, PlanLabels, DecLabels, FoundLabels, MainLabels
  <1>6. Writes(c)'
    BY Zenon, <1>0, <1>1, <1>4 DEF Writes, EmptyTx, CleanLabels, EndedLabels, PreTxLabels
  <1>7. pc[c] \in CleanLabels
    BY Zenon, <1>0 DEF CleanLabels, PreTxLabels
  <1> QED BY Zenon, <1>0, <1>1, <1>3, <1>4, <1>5, <1>6, <1>7, CleanMove DEF TypeOK

LEMMA PreviewTxImpactKeeps ==
    ASSUME IInv, NEW c \in Previews, PreviewTxImpact(c)
    PROVE  IInv'
  <1>0. c \in Calls /\ LocalsSet(c) /\ Writes(c) /\ TypeOK /\ pc[c] = "saveImpact" /\ c \notin Executes
    BY Zenon, CallAssumption DEF IInv, CallInv, Calls, PreviewTxImpact
  <1>1. pc[c] \in CleanLabels /\ tx[c].idem = None /\ plan[c] \in PlanType
    <2>1. pc[c] \in CleanLabels
      BY Zenon, <1>0 DEF CleanLabels
    <2>2. tx[c].idem = None
      BY Zenon, <1>0, <2>1, EmptyFields DEF Writes
    <2>3. plan[c] \in PlanType
      BY Zenon, <1>0 DEF LocalsSet, PlanLabels, TypeOK
    <2> QED BY Zenon, <2>1, <2>2, <2>3
  <1> DEFINE code == ImpactCode(req[c].input, None)
             m == IF code = "ok" THEN "savePlan" ELSE "rollback"
  <1>2. /\ pc' = [pc EXCEPT ![c] = m] /\ pc'[c] = m /\ pc' \in [Calls -> Labels]
        /\ reply' \in [Calls -> AnswerType \cup {None}]
    BY <1>0, <1>1, CodeTypes, TxProceedMoves DEF PreviewTxImpact, Labels, TxLabels, TypeOK
  <1>3. /\ UNCHANGED <<policy, now, tables, locks, req, dec, found, tx, resp, seen>>
        /\ plan' = IF code = "ok" THEN [plan EXCEPT ![c].fp = policy, ![c].exp = now + PlanTTL] ELSE plan
    BY Zenon DEF PreviewTxImpact
  <1>4. code = "ok" => policy \in Policies
    BY Zenon, <1>0 DEF ImpactCode, TypeOK
  <1> HIDE DEF code
  <1>5. plan' \in [Calls -> PlanType \cup {None}] /\ plan'[c] \in PlanType
        /\ \A d \in Calls \ {c} : plan'[d] = plan[d]
    <2>0. now + PlanTTL \in Nat
      BY <1>0, TimeAssumption DEF TypeOK
    <2>1. code = "ok" => [plan[c] EXCEPT !.fp = policy, !.exp = now + PlanTTL] \in PlanType
      BY Zenon, <1>1, <1>4, <2>0 DEF PlanType
    <2>2. code = "ok" => plan' = [plan EXCEPT ![c] = [plan[c] EXCEPT !.fp = policy, !.exp = now + PlanTTL]]
      BY Zenon, <1>0, <1>1, <1>3 DEF TypeOK, PlanType
    <2> QED BY <1>0, <1>1, <1>3, <2>1, <2>2 DEF TypeOK
  <1>6. LocalsSet(c)' /\ Writes(c)'
    <2>1. CASE code # "ok"
      BY Zenon, <1>0, <1>1, <1>2, <1>3, <2>1, CleanReject
    <2>2. CASE code = "ok"
      <3>1. LocalsSet(c)'
        BY Zenon, <1>0, <1>2, <1>3, <1>5, <2>2, NoneAssumption DEF LocalsSet, KeyLabels, PlanLabels, DecLabels, FoundLabels, MainLabels
      <3>2. Writes(c)'
        BY Zenon, <1>0, <1>1, <1>2, <1>3, <2>2 DEF Writes, EmptyTx, CleanLabels, EndedLabels
      <3> QED BY Zenon, <3>1, <3>2
    <2> QED BY Zenon, <2>1, <2>2
  <1> HIDE DEF m
  <1> QED BY Zenon, <1>0, <1>1, <1>2, <1>3, <1>5, <1>6, CleanMove DEF TypeOK

LEMMA PreviewSaveKeeps ==
    ASSUME IInv, NEW c \in Previews, PreviewSave(c)
    PROVE  IInv'
  <1>0. c \in Calls /\ LocalsSet(c) /\ Writes(c) /\ TypeOK /\ pc[c] = "savePlan" /\ c \notin Executes
    BY Zenon, CallAssumption DEF IInv, CallInv, Calls, PreviewSave
  <1>1. tx[c] = EmptyTx /\ plan[c] \in PlanType
    BY Zenon, <1>0 DEF CleanLabels, Writes, LocalsSet, PlanLabels, TypeOK
  <1>2. /\ pc' = [pc EXCEPT ![c] = "txAudit"] /\ pc'[c] = "txAudit" /\ pc' \in [Calls -> Labels]
    BY Zenon, <1>0 DEF PreviewSave, Goto, Labels, TxLabels, TypeOK
  <1>3. UNCHANGED <<policy, now, tables, locks, local, reply, resp, seen>>
    BY Zenon DEF PreviewSave
  <1> DEFINE w == [tx[c] EXCEPT !.dels = Expired(plan[c].exp - PlanTTL),
                                !.save = IF plan[c] \in plans THEN None ELSE plan[c]]
  <1>4. tx' = [tx EXCEPT ![c] = w] /\ tx'[c] = w
    BY Zenon, <1>0 DEF PreviewSave, TypeOK
  <1>5. w.idem = None /\ ~w.wrote /\ ~w.audit /\ w.orphan = "no"
    BY <1>1 DEF EmptyTx
  <1>6. w \in TxType
    BY Zenon, <1>0, <1>1 DEF EmptyTx, Expired, TypeOK, TxType
  <1> HIDE DEF w
  <1>7. TypeOK'
    BY Zenon, <1>0, <1>2, <1>3, <1>4, <1>6 DEF TypeOK, tables, locks, local
  <1>8. LocalsSet(c)'
    BY Zenon, <1>0, <1>2, <1>3 DEF LocalsSet, local, KeyLabels, PlanLabels, DecLabels, FoundLabels, MainLabels
  <1>9. Writes(c)'
    BY Zenon, <1>0, <1>2, <1>4, <1>5 DEF Writes, Complete, CleanLabels, EndedLabels, PreTxLabels, BeginLabels
  <1>10. \A d \in Calls \ {c} : pc'[d] = pc[d] /\ tx'[d] = tx[d]
    BY Zenon, <1>0, <1>2, <1>4 DEF TypeOK
  <1>11. pc[c] \notin EndedLabels
    BY Zenon, <1>0 DEF EndedLabels
  <1> QED BY Zenon, <1>0, <1>3, <1>4, <1>5, <1>7, <1>8, <1>9, <1>10, <1>11, LocalStep DEF local

-----------------------------------------------------------------------------
(* Execute before its transaction. *)

LEMMA ExecuteStartKeeps ==
    ASSUME IInv, NEW c \in Executes, ExecuteStart(c)
    PROVE  IInv'
  <1>0. c \in Calls /\ LocalsSet(c) /\ Writes(c) /\ TypeOK /\ pc[c] = "idle" /\ c \notin Previews
    BY Zenon, CallAssumption DEF IInv, CallInv, Calls, ExecuteStart
  <1>1. PICK i \in Inputs, h \in Issued \cup {None}, k \in Keys \cup {None} :
            /\ req' = [req EXCEPT ![c] = [input |-> i, plan |-> h, key |-> k]]
            /\ Proceed(c, ExecuteCode(h, k), IF k = None THEN "resolve" ELSE "lookup")
    BY Zenon DEF ExecuteStart
  <1> DEFINE m == IF ExecuteCode(h, k) = "ok" THEN (IF k = None THEN "resolve" ELSE "lookup") ELSE "reply"
  <1>2. /\ pc' = [pc EXCEPT ![c] = m] /\ pc'[c] = m
        /\ pc' \in [Calls -> Labels] /\ reply' \in [Calls -> AnswerType \cup {None}]
    <2>1. (IF k = None THEN "resolve" ELSE "lookup") \in Labels
      BY Zenon DEF Labels, PreTxLabels
    <2>2. pc' = [pc EXCEPT ![c] = m] /\ pc' \in [Calls -> Labels] /\ reply' \in [Calls -> AnswerType \cup {None}]
      BY Zenon, <1>0, <1>1, <2>1, CodeTypes, ProceedMoves
    <2> QED BY Zenon, <1>0, <2>2 DEF TypeOK
  <1>3. UNCHANGED <<policy, now, tables, locks, plan, dec, found, tx, resp, seen>>
    BY Zenon DEF ExecuteStart
  <1> DEFINE r == [input |-> i, plan |-> h, key |-> k]
  <1>4. r \in RequestType /\ req' = [req EXCEPT ![c] = r] /\ req'[c] = r
    BY Zenon, <1>0, <1>1 DEF RequestType, Issued, TypeOK, Calls
  <1>5. req'[c] # None /\ (m = "lookup" => req'[c].key # None) /\ m \in {"resolve", "lookup", "reply"}
    <2>1. req'[c] # None
      BY Zenon, <1>4, NoneAssumption
    <2>2. req'[c].key = k
      <3>1. r.key = k
        BY Zenon
      <3> HIDE DEF r
      <3> QED BY Zenon, <1>4, <3>1
    <2>3. (m = "lookup" => k # None) /\ m \in {"resolve", "lookup", "reply"}
      BY Zenon
    <2> QED BY Zenon, <2>1, <2>2, <2>3
  <1> HIDE DEF m, r
  <1>6. TypeOK'
    BY Zenon, <1>0, <1>2, <1>3, <1>4 DEF TypeOK, tables, locks
  <1>7. LocalsSet(c)'
    BY Zenon, <1>0, <1>2, <1>3, <1>5 DEF LocalsSet, KeyLabels, PlanLabels, DecLabels, FoundLabels, MainLabels
  <1>8. tx[c] = EmptyTx
    BY Zenon, <1>0 DEF Writes, CleanLabels
  <1>9. Writes(c)'
    BY Zenon, <1>0, <1>2, <1>3, <1>5, <1>8 DEF Writes, EmptyTx, CleanLabels, EndedLabels, PreTxLabels
  <1>10. \A d \in Calls \ {c} : pc'[d] = pc[d] /\ req'[d] = req[d]
    BY Zenon, <1>0, <1>2, <1>4 DEF TypeOK
  <1>11. tx'[c].idem = None /\ ~tx'[c].wrote /\ pc[c] \notin EndedLabels
    BY Zenon, <1>0, <1>3, <1>8, EmptyFields DEF EndedLabels
  <1> QED BY Zenon, <1>0, <1>3, <1>6, <1>7, <1>9, <1>10, <1>11, LocalStep

LEMMA ExecuteLookupKeeps ==
    ASSUME IInv, NEW c \in Executes, ExecuteLookup(c)
    PROVE  IInv'
  <1>0. c \in Calls /\ LocalsSet(c) /\ Writes(c) /\ TypeOK /\ pc[c] = "lookup" /\ c \notin Previews
    BY Zenon, CallAssumption DEF IInv, CallInv, Calls, ExecuteLookup
  <1>1. UNCHANGED <<policy, now, tables, locks, local, tx, reply, resp, seen>>
    BY Zenon DEF ExecuteLookup
  <1>2. PICK m \in {"resolve", "replayRead"} : pc' = [pc EXCEPT ![c] = m]
    BY Zenon DEF ExecuteLookup, Goto
  <1>3. pc'[c] = m /\ pc' \in [Calls -> Labels]
    BY Zenon, <1>0, <1>2 DEF TypeOK, Labels, PreTxLabels, BeginLabels
  <1>4. LocalsSet(c)'
    BY Zenon, <1>0, <1>1, <1>3 DEF LocalsSet, local, KeyLabels, PlanLabels, DecLabels, FoundLabels, MainLabels
  <1>5. Writes(c)'
    BY Zenon, <1>0, <1>1, <1>3 DEF Writes, EmptyTx, CleanLabels, EndedLabels, PreTxLabels, BeginLabels
  <1>6. pc[c] \notin EndedLabels /\ reply' \in [Calls -> AnswerType \cup {None}]
        /\ seen' \in [Calls -> SUBSET (Policies \cup {Deny})]
    BY Zenon, <1>0, <1>1 DEF EndedLabels, TypeOK
  <1> QED BY Zenon, <1>0, <1>1, <1>2, <1>3, <1>4, <1>5, <1>6, MoveStep

LEMMA ExecuteResolveKeeps ==
    ASSUME IInv, NEW c \in Executes, ExecuteResolve(c)
    PROVE  IInv'
  <1>0. c \in Calls /\ LocalsSet(c) /\ Writes(c) /\ TypeOK /\ pc[c] = "resolve" /\ c \notin Previews
    BY Zenon, CallAssumption DEF IInv, CallInv, Calls, ExecuteResolve
  <1>1. pc[c] \in CleanLabels /\ req[c] \in RequestType /\ found[c] = None
    BY Zenon, <1>0 DEF CleanLabels, PreTxLabels, LocalsSet, MainLabels, TypeOK
  <1> DEFINE h == req[c].plan
             code == IF h = None THEN "ok" ELSE LoadCode(h, req[c].input)
             p == IF h = None THEN HandlerPlan(req[c].input) ELSE h
             m == IF code = "ok" THEN "impact" ELSE "reply"
  <1>2. code \in Codes /\ p \in PlanType
    <2>1. "ok" \in Codes
      BY Zenon DEF Codes
    <2>2. HandlerPlan(req[c].input) \in PlanType
      BY <1>0, <1>1, TimeAssumption DEF HandlerPlan, PlanType, TypeOK, RequestType
    <2> QED BY Zenon, <1>1, <2>1, <2>2, CodeTypes DEF RequestType
  <1>3. /\ UNCHANGED <<policy, now, tables, locks, req, dec, found, tx, resp, seen>>
        /\ plan' = IF code # "ok" THEN plan ELSE [plan EXCEPT ![c] = p]
        /\ Proceed(c, code, "impact")
    BY Zenon DEF ExecuteResolve
  <1> HIDE DEF code, p, h
  <1>4. /\ pc' = [pc EXCEPT ![c] = m] /\ pc' \in [Calls -> Labels]
        /\ reply' \in [Calls -> AnswerType \cup {None}]
    BY Zenon, <1>0, <1>2, <1>3, ProceedMoves DEF Labels, PreTxLabels
  <1>5. pc'[c] = m
    BY Zenon, <1>0, <1>4 DEF TypeOK
  <1>6. /\ plan' \in [Calls -> PlanType \cup {None}] /\ (code = "ok" => plan'[c] # None)
        /\ \A d \in Calls \ {c} : plan'[d] = plan[d]
    BY Zenon, <1>0, <1>2, <1>3, NoneAssumption DEF TypeOK
  <1>7. LocalsSet(c)' /\ Writes(c)'
    <2>1. CASE code # "ok"
      BY Zenon, <1>0, <1>1, <1>3, <1>5, <2>1, CleanReject
    <2>2. CASE code = "ok"
      <3>1. LocalsSet(c)'
        BY Zenon, <1>0, <1>1, <1>3, <1>5, <1>6, <2>2 DEF LocalsSet, KeyLabels, PlanLabels, DecLabels, FoundLabels, MainLabels
      <3>2. Writes(c)'
        BY Zenon, <1>0, <1>1, <1>3, <1>5, <2>2 DEF Writes, EmptyTx, CleanLabels, EndedLabels, PreTxLabels
      <3> QED BY Zenon, <3>1, <3>2
    <2> QED BY Zenon, <2>1, <2>2
  <1> HIDE DEF m
  <1> QED BY Zenon, <1>0, <1>1, <1>3, <1>4, <1>6, <1>7, CleanMove DEF TypeOK

LEMMA ExecuteImpactKeeps ==
    ASSUME IInv, NEW c \in Executes, ExecuteImpact(c)
    PROVE  IInv'
  <1>0. c \in Calls /\ LocalsSet(c) /\ Writes(c) /\ TypeOK /\ pc[c] = "impact" /\ c \notin Previews
    BY Zenon, CallAssumption DEF IInv, CallInv, Calls, ExecuteImpact
  <1>1. pc[c] \in CleanLabels /\ plan[c] \in PlanType /\ found[c] = None
    BY Zenon, <1>0 DEF CleanLabels, PreTxLabels, LocalsSet, PlanLabels, MainLabels, TypeOK
  <1> DEFINE authorized == ImpactCode(plan[c].input, plan[c].fp)
             code == IF authorized = "ok" /\ plan[c].input # req[c].input THEN "plan_stale" ELSE authorized
             m == IF code = "ok" THEN "txIntent" ELSE "reply"
  <1>2. code \in Codes /\ (code = "ok" => policy \in Policies)
    <2>1. "plan_stale" \in Codes
      BY Zenon DEF Codes
    <2>2. authorized = "ok" => policy \in Policies
      BY Zenon, <1>0 DEF ImpactCode, TypeOK
    <2> QED BY Zenon, <2>1, <2>2, CodeTypes
  <1>3. /\ UNCHANGED <<policy, now, tables, locks, req, dec, found, tx, resp, seen>>
        /\ plan' = IF code = "ok" THEN [plan EXCEPT ![c].fp = policy] ELSE plan
        /\ Proceed(c, code, "txIntent")
    BY Zenon DEF ExecuteImpact
  <1> HIDE DEF code
  <1>4. /\ pc' = [pc EXCEPT ![c] = m] /\ pc' \in [Calls -> Labels]
        /\ reply' \in [Calls -> AnswerType \cup {None}]
    BY Zenon, <1>0, <1>2, <1>3, ProceedMoves DEF Labels, BeginLabels
  <1>5. pc'[c] = m
    BY Zenon, <1>0, <1>4 DEF TypeOK
  <1>6. /\ plan' \in [Calls -> PlanType \cup {None}] /\ (code = "ok" => plan'[c] # None)
        /\ \A d \in Calls \ {c} : plan'[d] = plan[d]
    <2>1. code = "ok" => [plan[c] EXCEPT !.fp = policy] \in PlanType
      BY Zenon, <1>1, <1>2 DEF PlanType
    <2>2. code = "ok" => plan' = [plan EXCEPT ![c] = [plan[c] EXCEPT !.fp = policy]]
      BY Zenon, <1>0, <1>3 DEF TypeOK
    <2> QED BY Zenon, <1>0, <1>3, <2>1, <2>2, NoneAssumption DEF TypeOK
  <1>7. LocalsSet(c)' /\ Writes(c)'
    <2>1. CASE code # "ok"
      BY Zenon, <1>0, <1>1, <1>3, <1>5, <2>1, CleanReject
    <2>2. CASE code = "ok"
      <3>1. LocalsSet(c)'
        BY Zenon, <1>0, <1>1, <1>3, <1>5, <1>6, <2>2 DEF LocalsSet, KeyLabels, PlanLabels, DecLabels, FoundLabels, MainLabels
      <3>2. Writes(c)'
        BY Zenon, <1>0, <1>1, <1>3, <1>5, <2>2 DEF Writes, EmptyTx, CleanLabels, EndedLabels, PreTxLabels, BeginLabels
      <3> QED BY Zenon, <3>1, <3>2
    <2> QED BY Zenon, <2>1, <2>2
  <1> HIDE DEF m
  <1> QED BY Zenon, <1>0, <1>1, <1>3, <1>4, <1>6, <1>7, CleanMove DEF TypeOK

-----------------------------------------------------------------------------
(* Execute's transaction. *)

LEMMA TxIntentKeeps ==
    ASSUME IInv, NEW c \in Executes, TxIntent(c)
    PROVE  IInv'
  <1>0. c \in Calls /\ LocalsSet(c) /\ Writes(c) /\ TypeOK /\ pc[c] = "txIntent" /\ c \notin Previews
    BY Zenon, CallAssumption DEF IInv, CallInv, Calls, TxIntent
  <1>1. /\ UNCHANGED <<policy, now, tables, locks, local, tx, resp>>
        /\ TxProceed(c, IntentCode, "txImpact")
        /\ seen' \in [Calls -> SUBSET (Policies \cup {Deny})]
    BY Zenon, <1>0 DEF TxIntent, Begin, TypeOK
  <1>2. "txImpact" \in Labels /\ pc[c] \in TxLabels \cup BeginLabels
    BY Zenon, <1>0 DEF Labels, TxLabels, BeginLabels
  <1>3. ASSUME IntentCode = "ok" PROVE LocalsSet(c)' /\ Writes(c)'
    <2>1. pc'[c] = "txImpact"
      BY <1>0, <1>1, <1>2, <1>3, CodeTypes, TxProceedMoves DEF TypeOK
    <2>2. LocalsSet(c)'
      BY Zenon, <1>0, <1>1, <2>1 DEF LocalsSet, local, KeyLabels, PlanLabels, DecLabels, FoundLabels, MainLabels
    <2>3. Writes(c)'
      BY Zenon, <1>0, <1>1, <2>1 DEF Writes, EmptyTx, CleanLabels, EndedLabels, BeginLabels
    <2> QED BY Zenon, <2>2, <2>3
  <1> QED BY Zenon, <1>0, <1>1, <1>2, <1>3, CodeTypes, TxMove

LEMMA TxImpactKeeps ==
    ASSUME IInv, NEW c \in Executes, TxImpact(c)
    PROVE  IInv'
  <1>0. c \in Calls /\ LocalsSet(c) /\ Writes(c) /\ TypeOK /\ pc[c] = "txImpact" /\ c \notin Previews
    BY Zenon, CallAssumption DEF IInv, CallInv, Calls, TxImpact
  <1>1. pc[c] \in CleanLabels /\ tx[c] = EmptyTx /\ found[c] = None /\ plan[c] # None
    BY Zenon, <1>0 DEF CleanLabels, Writes, LocalsSet, PlanLabels, MainLabels
  <1> DEFINE code == ImpactCode(plan[c].input, plan[c].fp)
             l == IF req[c].key = None THEN "txRead" ELSE "txReserve"
             m == IF code = "ok" THEN l ELSE "rollback"
  <1>2. code \in Codes /\ (code = "ok" => policy \in Policies) /\ l \in Labels
    BY Zenon, <1>0, CodeTypes DEF ImpactCode, TypeOK, Labels, TxLabels
  <1>3. /\ UNCHANGED <<policy, now, tables, locks, req, plan, found, tx, resp, seen>>
        /\ dec' = IF code = "ok" THEN [dec EXCEPT ![c] = policy] ELSE dec
        /\ TxProceed(c, code, l)
    BY Zenon DEF TxImpact
  <1>4. req[c].key # None => l = "txReserve"
    BY Zenon
  <1>5. l = "txRead" => req[c].key = None
    BY Zenon
  <1>6. l \in {"txRead", "txReserve"}
    BY Zenon
  <1> HIDE DEF code, l
  <1>7. /\ pc' = [pc EXCEPT ![c] = m] /\ pc' \in [Calls -> Labels]
        /\ reply' \in [Calls -> AnswerType \cup {None}]
    <2>1. tx[c].idem = None
      BY Zenon, <1>1, EmptyFields
    <2> QED BY Zenon, <1>0, <1>2, <1>3, <2>1, TxProceedMoves
  <1>8. pc'[c] = m
    BY Zenon, <1>0, <1>7 DEF TypeOK
  <1>9. /\ dec' \in [Calls -> Policies \cup {None}] /\ (code = "ok" => dec'[c] # None)
        /\ \A d \in Calls \ {c} : dec'[d] = dec[d]
    BY Zenon, <1>0, <1>2, <1>3, CallAssumption DEF TypeOK
  <1>10. LocalsSet(c)' /\ Writes(c)'
    <2>1. CASE code # "ok"
      BY Zenon, <1>0, <1>1, <1>3, <1>8, <2>1, CleanReject
    <2>2. CASE code = "ok"
      <3>1. req[c].key = None => l = "txRead"
        BY Zenon DEF l
      <3>2. LocalsSet(c)'
        BY Zenon, <1>0, <1>1, <1>3, <1>6, <1>8, <1>9, <2>2, <3>1
            DEF LocalsSet, KeyLabels, PlanLabels, DecLabels, FoundLabels, MainLabels
      <3>3. l = "txRead" => RunningRecord(c)' = None
        BY Zenon, <1>3, <1>5 DEF RunningRecord
      <3>4. pc'[c] = l /\ tx'[c] = EmptyTx
        BY Zenon, <1>1, <1>3, <1>8, <2>2
      <3>5. Writes(c)'
        BY Zenon, <1>6, <3>3, <3>4, EmptyFields DEF Writes, CleanLabels, EndedLabels, PreTxLabels, BeginLabels
      <3> QED BY Zenon, <3>2, <3>5
    <2> QED BY Zenon, <2>1, <2>2
  <1> HIDE DEF m
  <1> QED BY Zenon, <1>0, <1>1, <1>3, <1>7, <1>9, <1>10, CleanMove DEF TypeOK

LEMMA ReplayReadKeeps ==
    ASSUME IInv, NEW c \in Executes, ReplayRead(c)
    PROVE  IInv'
  <1>0. c \in Calls /\ LocalsSet(c) /\ Writes(c) /\ TypeOK /\ pc[c] = "replayRead" /\ c \notin Previews
    BY Zenon, CallAssumption DEF IInv, CallInv, Calls, ReplayRead
  <1>1. pc[c] \in CleanLabels /\ tx[c] = EmptyTx /\ req[c].key \in Keys
    BY Zenon, <1>0 DEF CleanLabels, BeginLabels, Writes, LocalsSet, KeyLabels, TypeOK, RequestType
  <1> DEFINE rec == idem[req[c].key]
             code == IF rec = None THEN "idempotency_in_progress" ELSE "ok"
             m == IF rec = None THEN "rollback" ELSE "replayIntent"
  <1>2. code \in Codes /\ "replayIntent" \in Labels
    BY Zenon DEF Codes, Labels, TxLabels
  <1>3. /\ UNCHANGED <<policy, now, tables, locks, req, plan, dec, tx, resp>>
        /\ found' = [found EXCEPT ![c] = rec] /\ rec \in RecordType \cup {None}
        /\ seen' \in [Calls -> SUBSET (Policies \cup {Deny})]
        /\ TxProceed(c, code, "replayIntent")
    BY Zenon, <1>0, <1>1 DEF ReplayRead, Begin, TypeOK
  <1>4. /\ pc' = [pc EXCEPT ![c] = m] /\ pc' \in [Calls -> Labels]
        /\ reply' \in [Calls -> AnswerType \cup {None}]
    <2>1. tx[c].idem = None /\ m = IF code = "ok" THEN "replayIntent" ELSE "rollback"
      BY Zenon, <1>1, EmptyFields
    <2> HIDE DEF m, code
    <2> QED BY Zenon, <1>0, <1>2, <1>3, <2>1, TxProceedMoves
  <1> HIDE DEF rec, code
  <1>5. pc'[c] = m
    BY Zenon, <1>0, <1>4 DEF TypeOK
  <1>6. /\ found' \in [Calls -> RecordType \cup {None}] /\ found'[c] = rec
        /\ \A d \in Calls \ {c} : found'[d] = found[d]
    BY Zenon, <1>0, <1>3 DEF TypeOK
  <1>7. LocalsSet(c)' /\ Writes(c)'
    <2>1. CASE rec = None
      BY Zenon, <1>0, <1>1, <1>3, <1>5, <2>1, CleanReject
    <2>2. CASE rec # None
      <3>1. LocalsSet(c)'
        BY Zenon, <1>0, <1>1, <1>3, <1>5, <1>6, <2>2, CallAssumption
            DEF LocalsSet, KeyLabels, PlanLabels, DecLabels, FoundLabels, MainLabels
      <3>2. Writes(c)'
        BY Zenon, <1>0, <1>1, <1>3, <1>5, <2>2 DEF Writes, EmptyTx, CleanLabels, EndedLabels, PreTxLabels, BeginLabels
      <3> QED BY Zenon, <3>1, <3>2
    <2> QED BY Zenon, <2>1, <2>2
  <1> HIDE DEF m
  <1> QED BY Zenon, <1>0, <1>1, <1>3, <1>4, <1>6, <1>7, CleanMove DEF TypeOK

LEMMA RecordTypes ==
    ASSUME TypeOK, NEW c \in Calls, req[c] # None, plan[c] # None, dec[c] # None
    PROVE  /\ Record(c, "running", None) \in RecordType
           /\ Record(c, "completed", Result(c)) \in RecordType
           /\ Result(c) \in Nat
  <1>1. req[c] \in RequestType /\ plan[c] \in PlanType /\ dec[c] \in Policies
    BY Zenon DEF TypeOK
  <1>2. Result(c) \in Nat
    BY <1>1 DEF Result, PlanType
  <1> QED BY Zenon, <1>1, <1>2 DEF Record, RecordType, RequestType

(* One more write of a transaction. *)
LEMMA IdemField ==
    ASSUME NEW w \in TxType, NEW r \in RecordType \cup {None}, NEW u, u = [w EXCEPT !.idem = r]
    PROVE  u \in TxType /\ u.idem = r /\ u.wrote = w.wrote /\ u.audit = w.audit /\ u.orphan = w.orphan
  BY Zenon DEF TxType

LEMMA WroteField ==
    ASSUME NEW w \in TxType, NEW u, u = [w EXCEPT !.wrote = TRUE]
    PROVE  u \in TxType /\ u.idem = w.idem /\ u.wrote /\ u.audit = w.audit /\ u.orphan = w.orphan
  BY Zenon DEF TxType

LEMMA AuditField ==
    ASSUME NEW w \in TxType, NEW u, u = [w EXCEPT !.audit = TRUE]
    PROVE  u \in TxType /\ u.idem = w.idem /\ u.wrote = w.wrote /\ u.audit /\ u.orphan = w.orphan
  BY Zenon DEF TxType

LEMMA OrphanField ==
    ASSUME NEW w \in TxType, NEW o \in {"no", "commit", "abort"}, NEW u, u = [w EXCEPT !.orphan = o]
    PROVE  u \in TxType /\ u.idem = w.idem /\ u.wrote = w.wrote /\ u.audit = w.audit /\ u.orphan = o
  BY Zenon DEF TxType

LEMMA TxReserveKeeps ==
    ASSUME IInv, NEW c \in Executes, TxReserve(c)
    PROVE  IInv'
  <1>0. c \in Calls /\ LocalsSet(c) /\ Writes(c) /\ TypeOK /\ pc[c] = "txReserve" /\ c \notin Previews /\ c # None
    BY Zenon, CallAssumption DEF IInv, CallInv, Calls, TxReserve
  <1>1. /\ tx[c] = EmptyTx /\ found[c] = None /\ plan[c] # None /\ dec[c] # None /\ req[c] # None
        /\ req[c].key \in Keys /\ pc[c] \in CleanLabels
    BY Zenon, <1>0 DEF CleanLabels, Writes, LocalsSet, PlanLabels, MainLabels, DecLabels, KeyLabels, TypeOK, RequestType
  <1> DEFINE k == req[c].key
  <1>2. UNCHANGED <<policy, now, tables, rowOwner, req, plan, dec, reply, resp, seen>> /\ keyOwner[k] = None
    BY Zenon DEF TxReserve
  <1>3. CASE idem[k] = None
    <2> DEFINE rec == Record(c, "running", None)
               w == [tx[c] EXCEPT !.idem = rec]
    <2>1. rec \in RecordType /\ rec # None
      BY Zenon, <1>0, <1>1, RecordTypes, NoneAssumption
    <2>2. /\ keyOwner' = [keyOwner EXCEPT ![k] = c] /\ tx' = [tx EXCEPT ![c] = w] /\ UNCHANGED found
          /\ pc' = [pc EXCEPT ![c] = "txRead"]
      BY Zenon, <1>3 DEF TxReserve, Goto
    <2>3. rec = RunningRecord(c)'
      BY Zenon, <1>0, <1>1, <1>2, CallAssumption DEF RunningRecord, Record
    <2> HIDE DEF rec
    <2>4. w \in TxType
          /\ w.idem = rec /\ ~w.wrote /\ ~w.audit /\ w.orphan = "no"
      <3>1. w = [EmptyTx EXCEPT !.idem = rec]
        BY Zenon, <1>1
      <3> HIDE DEF w
      <3>2. w \in TxType /\ w.idem = rec /\ w.wrote = EmptyTx.wrote /\ w.audit = EmptyTx.audit
            /\ w.orphan = EmptyTx.orphan
        BY <2>1, <3>1, EmptyFields, IdemField
      <3> QED BY Zenon, <3>2, EmptyFields
    <2> HIDE DEF w
    <2>5. tx'[c] = w /\ pc'[c] = "txRead" /\ \A d \in Calls \ {c} : pc'[d] = pc[d] /\ tx'[d] = tx[d]
      BY Zenon, <1>0, <2>2 DEF TypeOK
    <2>6. TypeOK'
      BY Zenon, <1>0, <1>1, <1>2, <2>2, <2>4 DEF TypeOK, tables, Labels, TxLabels
    <2>7. LocalsSet(c)'
      BY Zenon, <1>0, <1>1, <1>2, <2>2, <2>5 DEF LocalsSet, KeyLabels, PlanLabels, DecLabels, FoundLabels, MainLabels
    <2>8. Writes(c)'
      BY Zenon, <2>3, <2>4, <2>5 DEF Writes, CleanLabels, EndedLabels, PreTxLabels, BeginLabels
    <2>9. LockInv'
      <3>1. \A d \in Calls : d # c /\ tx[d].idem # None => req[d].key # k
        <4>1. \A d \in Calls : d # None
          BY Zenon, CallAssumption
        <4> QED BY Zenon, <1>2, <4>1 DEF IInv, LockInv
      <3>2. keyOwner'[k] = c /\ \A j \in Keys : j # k => keyOwner'[j] = keyOwner[j]
        BY Zenon, <1>0, <1>1, <2>2 DEF TypeOK
      <3>3. \A d \in Calls : tx'[d].idem # None => d \in Executes /\ req'[d] # None /\ req'[d].key \in Keys
                                                  /\ keyOwner'[req'[d].key] = d
        <4> SUFFICES ASSUME NEW d \in Calls, tx'[d].idem # None
                     PROVE  d \in Executes /\ req[d] # None /\ req[d].key \in Keys /\ keyOwner'[req[d].key] = d
          BY Zenon, <1>2
        <4>1. CASE d = c
          BY Zenon, <1>1, <3>2, <4>1
        <4>2. CASE d # c
          <5>1. d \in Executes /\ req[d] # None /\ req[d].key \in Keys /\ keyOwner[req[d].key] = d /\ req[d].key # k
            BY Zenon, <2>5, <3>1, <4>2 DEF IInv, LockInv
          <5> QED BY Zenon, <3>2, <5>1
        <4> QED BY Zenon, <4>1, <4>2
      <3>4. \A d \in Calls : tx'[d].wrote => d \in Executes /\ rowOwner' = d /\ plan'[d] # None /\ version' = plan'[d].snap
        BY Zenon, <1>2, <2>4, <2>5 DEF IInv, LockInv, tables
      <3>5. \A j \in Keys : keyOwner'[j] # None => idem'[j] = None
        BY Zenon, <1>2, <1>3, <3>2 DEF IInv, LockInv, tables
      <3> QED BY Zenon, <3>3, <3>4, <3>5 DEF LockInv
    <2>10. pc[c] \notin EndedLabels
      BY Zenon, <1>0 DEF EndedLabels
    <2> QED BY Zenon, <1>0, <1>2, <2>2, <2>5, <2>6, <2>7, <2>8, <2>9, <2>10, CallStep
  <1>4. CASE idem[k] # None
    <2>1. /\ found' = [found EXCEPT ![c] = idem[k]] /\ UNCHANGED <<keyOwner, tx>>
          /\ pc' = [pc EXCEPT ![c] = "replayImpact"]
      BY Zenon, <1>4 DEF TxReserve, Goto
    <2>2. /\ found'[c] = idem[k] /\ pc'[c] = "replayImpact" /\ found' \in [Calls -> RecordType \cup {None}]
          /\ pc' \in [Calls -> Labels] /\ \A d \in Calls \ {c} : found'[d] = found[d]
      BY Zenon, <1>0, <1>1, <2>1 DEF TypeOK, Labels, TxLabels
    <2>3. LocalsSet(c)'
      BY Zenon, <1>0, <1>1, <1>2, <1>4, <2>2, CallAssumption DEF LocalsSet, KeyLabels, PlanLabels, DecLabels, FoundLabels, MainLabels
    <2>4. tx'[c] = EmptyTx
      BY Zenon, <1>1, <2>1
    <2>5. Writes(c)'
      BY Zenon, <2>2, <2>4, EmptyFields DEF Writes, CleanLabels, EndedLabels, PreTxLabels, BeginLabels
    <2> QED BY Zenon, <1>0, <1>1, <1>2, <2>1, <2>2, <2>3, <2>5, CleanMove DEF TypeOK, locks
  <1> QED BY Zenon, <1>3, <1>4

LEMMA HandlerReadKeeps ==
    ASSUME IInv, NEW c \in Executes, HandlerRead(c)
    PROVE  IInv'
  <1>0. c \in Calls /\ LocalsSet(c) /\ Writes(c) /\ TypeOK /\ pc[c] = "txRead" /\ c \notin Previews
    BY Zenon, CallAssumption DEF IInv, CallInv, Calls, HandlerRead
  <1> DEFINE code == IF version = plan[c].snap THEN "ok" ELSE "plan_stale"
  <1>1. /\ UNCHANGED <<policy, now, tables, locks, local, tx, resp>>
        /\ TxProceed(c, code, "txWrite") /\ seen' \in [Calls -> SUBSET (Policies \cup {Deny})]
    BY Zenon, <1>0 DEF HandlerRead, TypeOK
  <1>2. "txWrite" \in Labels /\ pc[c] \in TxLabels \cup BeginLabels /\ code \in Codes
    BY Zenon, <1>0 DEF Labels, TxLabels, BeginLabels, Codes
  <1> HIDE DEF code
  <1>3. ASSUME code = "ok" PROVE LocalsSet(c)' /\ Writes(c)'
    <2>1. pc'[c] = "txWrite"
      <3>1. pc' = [pc EXCEPT ![c] = "txWrite"]
        BY Zenon, <1>1, <1>3 DEF TxProceed, Goto
      <3> QED BY Zenon, <1>0, <3>1 DEF TypeOK
    <2>2. LocalsSet(c)'
      BY Zenon, <1>0, <1>1, <2>1 DEF LocalsSet, local, KeyLabels, PlanLabels, DecLabels, FoundLabels, MainLabels
    <2>3. RunningRecord(c)' = RunningRecord(c)
      BY Zenon, <1>1 DEF RunningRecord, Record, local
    <2>4. Writes(c)'
      BY Zenon, <1>0, <1>1, <2>1, <2>3 DEF Writes, EmptyTx, CleanLabels, EndedLabels, BeginLabels, PreTxLabels
    <2> QED BY Zenon, <2>2, <2>4
  <1> QED BY Zenon, <1>0, <1>1, <1>2, <1>3, TxMove

LEMMA HandlerWriteKeeps ==
    ASSUME IInv, NEW c \in Executes, HandlerWrite(c)
    PROVE  IInv'
  <1>0. c \in Calls /\ LocalsSet(c) /\ Writes(c) /\ TypeOK /\ pc[c] = "txWrite" /\ c \notin Previews /\ c # None
    BY Zenon, CallAssumption DEF IInv, CallInv, Calls, HandlerWrite
  <1>1. /\ ~tx[c].wrote /\ ~tx[c].audit /\ tx[c].idem = RunningRecord(c) /\ tx[c].orphan = "no"
        /\ found[c] = None /\ plan[c] # None /\ dec[c] # None /\ req[c] # None /\ tx[c] \in TxType
    BY Zenon, <1>0 DEF Writes, EndedLabels, LocalsSet, MainLabels, PlanLabels, DecLabels, TypeOK, TxType
  <1>2. UNCHANGED <<policy, now, tables, keyOwner, local, resp, seen>> /\ rowOwner = None
    BY Zenon DEF HandlerWrite
  <1>3. CASE version = plan[c].snap
    <2> DEFINE w == [tx[c] EXCEPT !.wrote = TRUE]
               m == IF req[c].key = None THEN "txAudit" ELSE "txComplete"
    <2>1. tx' = [tx EXCEPT ![c] = w] /\ rowOwner' = c /\ UNCHANGED reply /\ pc' = [pc EXCEPT ![c] = m]
      BY Zenon, <1>3 DEF HandlerWrite, Goto
    <2>2. w \in TxType /\ w.idem = tx[c].idem /\ w.wrote /\ w.audit = tx[c].audit /\ w.orphan = tx[c].orphan
      BY Zenon, <1>1, WroteField
    <2> HIDE DEF w
    <2>3. /\ tx'[c] = w /\ pc'[c] = m /\ pc' \in [Calls -> Labels] /\ tx' \in [Calls -> TxType]
          /\ \A d \in Calls \ {c} : pc'[d] = pc[d] /\ tx'[d] = tx[d]
      BY Zenon, <1>0, <2>1, <2>2 DEF TypeOK, Labels, TxLabels
    <2>4. TypeOK'
      BY Zenon, <1>0, <1>2, <2>1, <2>3 DEF TypeOK, tables, local
    <2>5. LocalsSet(c)'
      BY Zenon, <1>0, <1>1, <1>2, <2>3 DEF LocalsSet, local, KeyLabels, PlanLabels, DecLabels, FoundLabels, MainLabels
    <2>6. m \in {"txAudit", "txComplete"} /\ (m = "txAudit" => req[c].key = None)
      BY Zenon
    <2>7. Writes(c)'
      <3>1. tx'[c].idem = RunningRecord(c)' /\ tx'[c].wrote /\ ~tx'[c].audit /\ tx'[c].orphan = "no"
        BY Zenon, <1>1, <1>2, <2>2, <2>3 DEF RunningRecord, Record, local
      <3>2. pc'[c] = "txAudit" => Complete(c)'
        BY Zenon, <1>1, <1>2, <2>3, <2>6, <3>1 DEF Complete, RunningRecord, CompletedRecord, local
      <3> QED BY Zenon, <2>3, <2>6, <3>1, <3>2 DEF Writes, CleanLabels, EndedLabels, PreTxLabels, BeginLabels
    <2> HIDE DEF m
    <2>8. LockInv'
      <3>1. \A d \in Calls : ~tx[d].wrote
        BY Zenon, <1>2, CallAssumption DEF IInv, LockInv, Calls
      <3>2. \A d \in Calls : tx'[d].idem = tx[d].idem
        BY Zenon, <2>2, <2>3
      <3>3. keyOwner' = keyOwner /\ idem' = idem /\ req' = req /\ plan' = plan /\ version' = version /\ rowOwner' = c
        BY Zenon, <1>2, <2>1 DEF tables, local
      <3>4. LockInv
        BY Zenon DEF IInv
      <3>5. \A d \in Calls : tx'[d].idem # None => d \in Executes /\ req'[d] # None /\ req'[d].key \in Keys
                                                   /\ keyOwner'[req'[d].key] = d
        BY Zenon, <3>2, <3>3, <3>4 DEF LockInv
      <3>6. \A d \in Calls : tx'[d].wrote => d = c
        BY Zenon, <2>3, <3>1
      <3>7. \A d \in Calls : tx'[d].wrote => d \in Executes /\ rowOwner' = d /\ plan'[d] # None
                                             /\ version' = plan'[d].snap
        BY Zenon, <1>1, <1>3, <3>3, <3>6
      <3> QED BY Zenon, <3>3, <3>4, <3>5, <3>7 DEF LockInv
    <2>9. pc[c] \notin EndedLabels
      BY Zenon, <1>0 DEF EndedLabels
    <2> QED BY Zenon, <1>0, <1>2, <2>3, <2>4, <2>5, <2>7, <2>8, <2>9, CallStep DEF local
  <1>4. CASE version # plan[c].snap
    <2>1. "plan_stale" \in Codes /\ "txWrite" \in Labels /\ pc[c] \in TxLabels
      BY Zenon, <1>0 DEF Codes, Labels, TxLabels
    <2>2. TxProceed(c, "plan_stale", "txWrite") /\ UNCHANGED <<rowOwner, tx>>
      BY Zenon, <1>4 DEF HandlerWrite, TxProceed
    <2> QED BY Zenon, <1>0, <1>2, <2>1, <2>2, TxMove DEF locks, TypeOK
  <1> QED BY Zenon, <1>3, <1>4

LEMMA TxCompleteKeeps ==
    ASSUME IInv, NEW c \in Executes, TxComplete(c)
    PROVE  IInv'
  <1>0. c \in Calls /\ LocalsSet(c) /\ Writes(c) /\ TypeOK /\ pc[c] = "txComplete" /\ c \notin Previews
    BY Zenon, CallAssumption DEF IInv, CallInv, Calls, TxComplete
  <1>1. /\ tx[c].wrote /\ ~tx[c].audit /\ tx[c].orphan = "no" /\ req[c].key # None
        /\ found[c] = None /\ plan[c] # None /\ dec[c] # None /\ req[c] # None /\ tx[c] \in TxType
    BY Zenon, <1>0 DEF Writes, EndedLabels, LocalsSet, MainLabels, PlanLabels, DecLabels, KeyLabels, TypeOK, TxType
  <1> DEFINE rec == Record(c, "completed", Result(c))
             w == [tx[c] EXCEPT !.idem = rec]
  <1>2. /\ UNCHANGED <<policy, now, tables, locks, local, reply, resp, seen>>
        /\ tx' = [tx EXCEPT ![c] = w] /\ pc' = [pc EXCEPT ![c] = "txAudit"]
        /\ tx[c].idem = Record(c, "running", None)
    BY Zenon DEF TxComplete, Goto
  <1>3. /\ rec \in RecordType /\ tx[c].idem # None
    BY Zenon, <1>0, <1>1, <1>2, RecordTypes, NoneAssumption
  <1>4. rec = CompletedRecord(c)'
    BY Zenon, <1>1, <1>2 DEF CompletedRecord, Record, Result, local
  <1> HIDE DEF rec
  <1>a. w = [tx[c] EXCEPT !.idem = rec] /\ tx[c] \in TxType
    BY Zenon, <1>1
  <1> HIDE DEF w
  <1>5. w \in TxType /\ w.idem = rec /\ w.wrote = tx[c].wrote /\ w.audit = tx[c].audit /\ w.orphan = tx[c].orphan
    BY <1>3, <1>a, IdemField
  <1>6. /\ tx'[c] = w /\ pc'[c] = "txAudit" /\ pc' \in [Calls -> Labels] /\ tx' \in [Calls -> TxType]
        /\ \A d \in Calls \ {c} : pc'[d] = pc[d] /\ tx'[d] = tx[d]
    BY Zenon, <1>0, <1>2, <1>5 DEF TypeOK, Labels, TxLabels
  <1>7. TypeOK'
    BY Zenon, <1>0, <1>2, <1>6 DEF TypeOK, tables, locks, local
  <1>8. LocalsSet(c)'
    BY Zenon, <1>0, <1>1, <1>2, <1>6 DEF LocalsSet, local, KeyLabels, PlanLabels, DecLabels, FoundLabels, MainLabels
  <1>9. Complete(c)' /\ ~tx'[c].audit /\ tx'[c].orphan = "no"
    BY Zenon, <1>1, <1>2, <1>4, <1>5, <1>6 DEF Complete, local
  <1>10. Writes(c)'
    BY Zenon, <1>6, <1>9 DEF Writes, CleanLabels, EndedLabels, PreTxLabels, BeginLabels
  <1> QED BY Zenon, <1>0, <1>1, <1>2, <1>3, <1>6, <1>7, <1>8, <1>10, LocalStep DEF EndedLabels, local

LEMMA TxAuditKeeps ==
    ASSUME IInv, NEW c \in Calls, TxAudit(c)
    PROVE  IInv'
  <1>0. LocalsSet(c) /\ Writes(c) /\ TypeOK /\ pc[c] = "txAudit"
    BY Zenon DEF IInv, CallInv, TxAudit
  <1>1. Complete(c) /\ tx[c].orphan = "no" /\ found[c] = None /\ tx[c] \in TxType
    BY Zenon, <1>0 DEF Writes, EndedLabels, LocalsSet, MainLabels, TypeOK, TxType
  <1> DEFINE w == [tx[c] EXCEPT !.audit = TRUE]
  <1>2. /\ UNCHANGED <<policy, now, tables, locks, local, reply, resp, seen>>
        /\ tx' = [tx EXCEPT ![c] = w] /\ pc' = [pc EXCEPT ![c] = "txCommit"]
    BY Zenon DEF TxAudit, Goto
  <1>3. w \in TxType /\ w.idem = tx[c].idem /\ w.wrote = tx[c].wrote /\ w.audit /\ w.orphan = tx[c].orphan
    BY Zenon, <1>1, AuditField
  <1> HIDE DEF w
  <1>4. /\ tx'[c] = w /\ pc'[c] = "txCommit" /\ pc' \in [Calls -> Labels] /\ tx' \in [Calls -> TxType]
        /\ \A d \in Calls \ {c} : pc'[d] = pc[d] /\ tx'[d] = tx[d]
    BY Zenon, <1>0, <1>2, <1>3 DEF TypeOK, Labels, EndLabels
  <1>5. TypeOK'
    BY Zenon, <1>0, <1>2, <1>4 DEF TypeOK, tables, locks, local
  <1>6. LocalsSet(c)'
    BY Zenon, <1>0, <1>1, <1>2, <1>4 DEF LocalsSet, local, KeyLabels, PlanLabels, DecLabels, FoundLabels, MainLabels
  <1>7. Complete(c)' /\ tx'[c].audit /\ tx'[c].orphan = "no"
    BY Zenon, <1>1, <1>2, <1>3, <1>4 DEF Complete, CompletedRecord, Record, Result, local
  <1>8. Writes(c)'
    BY Zenon, <1>4, <1>7 DEF Writes, CleanLabels, EndedLabels, PreTxLabels, BeginLabels
  <1> QED BY Zenon, <1>0, <1>2, <1>3, <1>4, <1>5, <1>6, <1>8, LocalStep DEF EndedLabels, local

LEMMA TxAbortKeeps ==
    ASSUME IInv, NEW c \in Executes, TxAbort(c)
    PROVE  IInv'
  <1>0. c \in Calls /\ LocalsSet(c) /\ Writes(c) /\ TypeOK /\ pc[c] = "txAbort" /\ c \notin Previews
    BY Zenon, CallAssumption DEF IInv, CallInv, Calls, TxAbort
  <1>1. tx[c].orphan = "no" /\ tx[c] \in TxType /\ req[c] # None
    BY Zenon, <1>0 DEF Writes, EndedLabels, LocalsSet, TypeOK, TxType
  <1> DEFINE u == [tx[c] EXCEPT !.idem = None]
             w == IF tx[c].idem.status = "running" THEN u ELSE tx[c]
  <1>2. /\ UNCHANGED <<policy, now, tables, locks, local, reply, resp, seen>>
        /\ pc' = [pc EXCEPT ![c] = "rollback"]
        /\ tx' = IF tx[c].idem.status = "running" THEN [tx EXCEPT ![c] = u] ELSE tx
    BY Zenon DEF TxAbort, Goto
  <1>3. u = [tx[c] EXCEPT !.idem = None]
    BY Zenon
  <1> HIDE DEF u
  <1>4. u \in TxType /\ u.idem = None /\ u.wrote = tx[c].wrote /\ u.orphan = "no"
    BY <1>1, <1>3, IdemField
  <1>5. /\ tx'[c] = w /\ pc'[c] = "rollback" /\ pc' \in [Calls -> Labels] /\ tx' \in [Calls -> TxType]
        /\ \A d \in Calls \ {c} : pc'[d] = pc[d] /\ tx'[d] = tx[d]
    BY Zenon, <1>0, <1>2, <1>4 DEF TypeOK, Labels, EndLabels
  <1>6. (w.idem # None => tx[c].idem # None) /\ w.wrote = tx[c].wrote /\ w.orphan = "no"
    BY Zenon, <1>1, <1>4
  <1> HIDE DEF w
  <1>7. TypeOK'
    BY Zenon, <1>0, <1>2, <1>5 DEF TypeOK, tables, locks, local
  <1>8. LocalsSet(c)'
    BY Zenon, <1>0, <1>1, <1>2, <1>5 DEF LocalsSet, local, KeyLabels, PlanLabels, DecLabels, FoundLabels, MainLabels
  <1>9. Writes(c)'
    BY Zenon, <1>5, <1>6 DEF Writes, CleanLabels, EndedLabels, PreTxLabels, BeginLabels
  <1> QED BY Zenon, <1>0, <1>2, <1>5, <1>6, <1>7, <1>8, <1>9, LocalStep DEF EndedLabels, local

LEMMA ReplayIntentKeeps ==
    ASSUME IInv, NEW c \in Executes, ReplayIntent(c)
    PROVE  IInv'
  <1>0. c \in Calls /\ LocalsSet(c) /\ Writes(c) /\ TypeOK /\ pc[c] = "replayIntent" /\ c \notin Previews
    BY Zenon, CallAssumption DEF IInv, CallInv, Calls, ReplayIntent
  <1>1. /\ UNCHANGED <<policy, now, tables, locks, local, tx, resp>>
        /\ TxProceed(c, IntentCode, "replayImpact")
        /\ seen' \in [Calls -> SUBSET (Policies \cup {Deny})]
    BY Zenon, <1>0 DEF ReplayIntent, TypeOK
  <1>2. "replayImpact" \in Labels /\ pc[c] \in TxLabels \cup BeginLabels
    BY Zenon, <1>0 DEF Labels, TxLabels, BeginLabels
  <1>3. ASSUME IntentCode = "ok" PROVE LocalsSet(c)' /\ Writes(c)'
    <2>1. pc'[c] = "replayImpact"
      <3>1. pc' = [pc EXCEPT ![c] = "replayImpact"]
        BY Zenon, <1>1, <1>3 DEF TxProceed, Goto
      <3> QED BY Zenon, <1>0, <3>1 DEF TypeOK
    <2>2. LocalsSet(c)'
      BY Zenon, <1>0, <1>1, <2>1 DEF LocalsSet, local, KeyLabels, PlanLabels, DecLabels, FoundLabels, MainLabels
    <2>3. Writes(c)'
      BY Zenon, <1>0, <1>1, <2>1 DEF Writes, EmptyTx, CleanLabels, EndedLabels, PreTxLabels, BeginLabels
    <2> QED BY Zenon, <2>2, <2>3
  <1> QED BY Zenon, <1>0, <1>1, <1>2, <1>3, CodeTypes, TxMove

LEMMA ReplayImpactKeeps ==
    ASSUME IInv, NEW c \in Executes, ReplayImpact(c)
    PROVE  IInv'
  <1>0. c \in Calls /\ LocalsSet(c) /\ Writes(c) /\ TypeOK /\ pc[c] = "replayImpact" /\ c \notin Previews
    BY Zenon, CallAssumption DEF IInv, CallInv, Calls, ReplayImpact
  <1>1. /\ UNCHANGED <<policy, now, tables, locks, local, tx, resp>>
        /\ TxProceed(c, CompletedCode(req[c], found[c]), "txCommit")
        /\ seen' \in [Calls -> SUBSET (Policies \cup {Deny})]
    BY Zenon, <1>0 DEF ReplayImpact, TypeOK
  <1>2. "txCommit" \in Labels /\ pc[c] \in TxLabels \cup BeginLabels
    BY Zenon, <1>0 DEF Labels, TxLabels, BeginLabels, EndLabels
  <1>3. ASSUME CompletedCode(req[c], found[c]) = "ok" PROVE LocalsSet(c)' /\ Writes(c)'
    <2>1. pc'[c] = "txCommit"
      <3>1. pc' = [pc EXCEPT ![c] = "txCommit"]
        BY Zenon, <1>1, <1>3 DEF TxProceed, Goto
      <3> QED BY Zenon, <1>0, <3>1 DEF TypeOK
    <2>2. LocalsSet(c)'
      BY Zenon, <1>0, <1>1, <2>1 DEF LocalsSet, local, KeyLabels, PlanLabels, DecLabels, FoundLabels, MainLabels
    <2>3. tx'[c] = EmptyTx /\ found'[c] # None
      BY Zenon, <1>0, <1>1 DEF Writes, CleanLabels, LocalsSet, FoundLabels, local
    <2>4. Complete(c)' /\ (c \in Executes /\ found'[c] = None => tx'[c].audit)
      BY Zenon, <2>3, EmptyFields DEF Complete
    <2>5. Writes(c)'
      BY Zenon, <2>1, <2>3, <2>4, EmptyFields DEF Writes, CleanLabels, EndedLabels, PreTxLabels, BeginLabels
    <2> QED BY Zenon, <2>2, <2>5
  <1> QED BY Zenon, <1>0, <1>1, <1>2, <1>3, CodeTypes, TxMove

-----------------------------------------------------------------------------
(* Ends, failures and answers. *)

LEMMA RespondKeeps ==
    ASSUME IInv, NEW c \in Calls, Respond(c)
    PROVE  IInv'
  <1>0. LocalsSet(c) /\ Writes(c) /\ TypeOK /\ pc[c] = "reply"
    BY Zenon DEF IInv, CallInv, Respond
  <1>1. UNCHANGED <<policy, now, tables, locks, local, tx, seen>> /\ pc' = [pc EXCEPT ![c] = "done"]
    BY Zenon DEF Respond, Goto
  <1>2. /\ pc'[c] = "done" /\ \A d \in Calls \ {c} : pc'[d] = pc[d]
    BY Zenon, <1>0, <1>1 DEF TypeOK
  <1>3. TypeOK'
    BY Zenon, <1>0, <1>1 DEF Respond, TypeOK, Labels, tables, locks, local
  <1>4. LocalsSet(c)'
    BY Zenon, <1>0, <1>1, <1>2 DEF LocalsSet, local, KeyLabels, PlanLabels, DecLabels, FoundLabels, MainLabels
  <1>5. Complete(c)' = Complete(c)
    BY Zenon, <1>1 DEF Complete, CompletedRecord, Record, Result, local
  <1>6. Writes(c)'
    BY Zenon, <1>0, <1>1, <1>2, <1>5 DEF Writes, CleanLabels, EndedLabels, PreTxLabels, BeginLabels, local
  <1> QED BY Zenon, <1>0, <1>1, <1>2, <1>3, <1>4, <1>6, LocalStep DEF EndedLabels, local

LEMMA DependencyFailureKeeps ==
    ASSUME IInv, NEW c \in Calls, DependencyFailure(c)
    PROVE  IInv'
  <1>0. LocalsSet(c) /\ Writes(c) /\ TypeOK /\ "internal" \in Codes /\ "idle" \in Labels
    BY Zenon DEF IInv, CallInv, Codes, Labels
  <1>1. UNCHANGED <<policy, now, tables, locks, local, tx, resp, seen>>
    BY Zenon DEF DependencyFailure
  <1>2. CASE pc[c] \in PreTxLabels \cup BeginLabels /\ Reject(c, "internal")
    <2>1. Proceed(c, "internal", "idle")
      BY Zenon, <1>2 DEF Proceed
    <2>2. /\ pc' = [pc EXCEPT ![c] = "reply"] /\ pc'[c] = "reply" /\ pc' \in [Calls -> Labels]
          /\ reply' \in [Calls -> AnswerType \cup {None}]
      BY <1>0, <2>1, ProceedMoves DEF TypeOK
    <2>3. pc[c] \in CleanLabels /\ pc[c] # "idle"
      BY Zenon, <1>2 DEF CleanLabels, PreTxLabels, BeginLabels
    <2>4. LocalsSet(c)' /\ Writes(c)'
      BY Zenon, <1>0, <1>1, <2>2, <2>3, CleanReject DEF local
    <2> QED BY Zenon, <1>0, <1>1, <2>2, <2>3, <2>4, CleanMove DEF TypeOK, local
  <1>3. CASE pc[c] \in TxLabels /\ TxReject(c, "internal")
    <2>1. TxProceed(c, "internal", "idle")
      BY Zenon, <1>3 DEF TxProceed
    <2> QED BY Zenon, <1>0, <1>1, <1>3, <2>1, TxMove DEF TypeOK
  <1> QED BY Zenon, <1>2, <1>3 DEF DependencyFailure

LEMMA CommitInDoubtKeeps ==
    ASSUME IInv, NEW c \in Calls, CommitInDoubt(c)
    PROVE  IInv'
  <1>0. LocalsSet(c) /\ Writes(c) /\ TypeOK /\ pc[c] = "txCommit"
    BY Zenon DEF IInv, CallInv, CommitInDoubt
  <1>1. tx[c] \in TxType /\ Answer("unknown", "internal", None) \in AnswerType
    BY Zenon, <1>0 DEF TypeOK, Answer, AnswerType, Codes
  <1> DEFINE w == [tx[c] EXCEPT !.orphan = "commit"]
  <1>2. /\ UNCHANGED <<policy, now, tables, locks, local, resp, seen>>
        /\ tx' = [tx EXCEPT ![c] = w] /\ pc' = [pc EXCEPT ![c] = "reply"]
        /\ reply' = [reply EXCEPT ![c] = Answer("unknown", "internal", None)]
    BY Zenon DEF CommitInDoubt, Goto
  <1>3. w \in TxType /\ w.idem = tx[c].idem /\ w.wrote = tx[c].wrote /\ w.audit = tx[c].audit /\ w.orphan = "commit"
    BY Zenon, <1>1, OrphanField
  <1> HIDE DEF w
  <1>4. /\ tx'[c] = w /\ pc'[c] = "reply" /\ pc' \in [Calls -> Labels] /\ tx' \in [Calls -> TxType]
        /\ \A d \in Calls \ {c} : pc'[d] = pc[d] /\ tx'[d] = tx[d]
    BY Zenon, <1>0, <1>2, <1>3 DEF TypeOK, Labels
  <1>5. TypeOK'
    BY Zenon, <1>0, <1>1, <1>2, <1>4 DEF TypeOK, tables, locks, local
  <1>6. LocalsSet(c)'
    BY Zenon, <1>0, <1>2, <1>4 DEF LocalsSet, local, KeyLabels, PlanLabels, DecLabels, FoundLabels, MainLabels
  <1>7. Complete(c) /\ (c \in Executes /\ found[c] = None => tx[c].audit)
    BY Zenon, <1>0 DEF Writes
  <1>8. Complete(c)' /\ (c \in Executes /\ found'[c] = None => tx'[c].audit) /\ tx'[c].orphan = "commit"
    BY Zenon, <1>2, <1>3, <1>4, <1>7 DEF Complete, CompletedRecord, Record, Result, local
  <1>9. Writes(c)'
    BY Zenon, <1>4, <1>8 DEF Writes, CleanLabels, EndedLabels, PreTxLabels, BeginLabels
  <1> QED BY Zenon, <1>0, <1>2, <1>3, <1>4, <1>5, <1>6, <1>9, LocalStep DEF EndedLabels, local

LEMMA RollbackInDoubtKeeps ==
    ASSUME IInv, NEW c \in Calls, RollbackInDoubt(c)
    PROVE  IInv'
  <1>0. LocalsSet(c) /\ Writes(c) /\ TypeOK /\ pc[c] = "rollback"
    BY Zenon DEF IInv, CallInv, RollbackInDoubt
  <1>1. tx[c] \in TxType /\ Answer("unknown", "internal", None) \in AnswerType
    BY Zenon, <1>0 DEF TypeOK, Answer, AnswerType, Codes
  <1> DEFINE w == [tx[c] EXCEPT !.orphan = "abort"]
  <1>2. /\ UNCHANGED <<policy, now, tables, locks, local, resp, seen>>
        /\ tx' = [tx EXCEPT ![c] = w] /\ pc' = [pc EXCEPT ![c] = "reply"]
        /\ reply' = [reply EXCEPT ![c] = Answer("unknown", "internal", None)]
    BY Zenon DEF RollbackInDoubt, Goto
  <1>3. w \in TxType /\ w.idem = tx[c].idem /\ w.wrote = tx[c].wrote /\ w.orphan = "abort"
    BY <1>1, OrphanField
  <1> HIDE DEF w
  <1>4. /\ tx'[c] = w /\ pc'[c] = "reply" /\ pc' \in [Calls -> Labels] /\ tx' \in [Calls -> TxType]
        /\ \A d \in Calls \ {c} : pc'[d] = pc[d] /\ tx'[d] = tx[d]
    BY Zenon, <1>0, <1>2, <1>3 DEF TypeOK, Labels
  <1>5. TypeOK'
    BY Zenon, <1>0, <1>1, <1>2, <1>4 DEF TypeOK, tables, locks, local
  <1>6. LocalsSet(c)'
    BY Zenon, <1>0, <1>2, <1>4 DEF LocalsSet, local, KeyLabels, PlanLabels, DecLabels, FoundLabels, MainLabels
  <1>7. Writes(c)'
    BY Zenon, <1>3, <1>4 DEF Writes, CleanLabels, EndedLabels, PreTxLabels, BeginLabels
  <1> QED BY Zenon, <1>0, <1>2, <1>3, <1>4, <1>5, <1>6, <1>7, LocalStep DEF EndedLabels, local

LEMMA CrashKeeps ==
    ASSUME IInv, NEW c \in Calls, Crash(c)
    PROVE  IInv'
  <1>0. LocalsSet(c) /\ Writes(c) /\ TypeOK /\ tx[c] \in TxType
    BY Zenon DEF IInv, CallInv, TypeOK
  <1> DEFINE o == IF pc[c] = "txCommit" THEN "commit" ELSE "abort"
             left == pc[c] \in TxLabels \cup EndLabels
             u == [tx[c] EXCEPT !.orphan = o]
  <1>1. /\ UNCHANGED <<policy, now, tables, locks, local, resp, seen>>
        /\ tx' = IF left THEN [tx EXCEPT ![c] = u] ELSE tx
        /\ pc' = [pc EXCEPT ![c] = "dead"] /\ reply' = [reply EXCEPT ![c] = None]
        /\ pc[c] \notin {"idle", "done", "dead"}
    BY Zenon DEF Crash, Goto
  <1>2. u \in TxType /\ u.idem = tx[c].idem /\ u.wrote = tx[c].wrote /\ u.audit = tx[c].audit /\ u.orphan = o
    BY <1>0, OrphanField
  <1> HIDE DEF u
  <1>3. /\ tx'[c] = IF left THEN u ELSE tx[c]
        /\ pc'[c] = "dead" /\ pc' \in [Calls -> Labels] /\ tx' \in [Calls -> TxType]
        /\ \A d \in Calls \ {c} : pc'[d] = pc[d] /\ tx'[d] = tx[d]
    BY Zenon, <1>0, <1>1, <1>2 DEF TypeOK, Labels
  <1>4. TypeOK'
    BY Zenon, <1>0, <1>1, <1>3 DEF TypeOK, tables, locks, local
  <1>5. LocalsSet(c)'
    BY Zenon, <1>0, <1>1, <1>3 DEF LocalsSet, local, KeyLabels, PlanLabels, DecLabels, FoundLabels, MainLabels
  <1>6. tx'[c].idem = tx[c].idem /\ tx'[c].wrote = tx[c].wrote /\ tx'[c].audit = tx[c].audit
    BY Zenon, <1>2, <1>3
  <1>7. Complete(c)' = Complete(c)
    BY Zenon, <1>1, <1>6 DEF Complete, CompletedRecord, Record, Result, local
  <1>8. Writes(c)'
    <2>1. CASE left
      <3>1. pc[c] = "txCommit" => Complete(c) /\ (c \in Executes /\ found[c] = None => tx[c].audit)
        BY Zenon, <1>0 DEF Writes
      <3>2. tx'[c].orphan # "no" /\ (tx'[c].orphan = "commit" => pc[c] = "txCommit")
        BY Zenon, <1>2, <1>3, <2>1
      <3> QED BY Zenon, <1>1, <1>3, <1>6, <1>7, <3>1, <3>2 DEF Writes, CleanLabels, EndedLabels, PreTxLabels, BeginLabels, local
    <2>2. CASE ~left
      <3>1. pc[c] \in CleanLabels \/ pc[c] = "reply"
        BY Zenon, <1>0, <1>1, <2>2 DEF TypeOK, Labels, CleanLabels, TxLabels, EndLabels
      <3>2. tx'[c] = tx[c]
        BY Zenon, <1>3, <2>2
      <3> QED BY Zenon, <1>0, <1>1, <1>3, <1>7, <3>1, <3>2, EmptyFields DEF Writes, CleanLabels, EndedLabels, PreTxLabels, BeginLabels, local
    <2> QED BY Zenon, <2>1, <2>2
  <1>9. pc[c] \in EndedLabels => ~left
    BY Zenon DEF EndedLabels, TxLabels, EndLabels
  <1>10. pc[c] \in EndedLabels => pc'[c] \in EndedLabels /\ tx'[c] = tx[c]
    BY Zenon, <1>3, <1>9 DEF EndedLabels
  <1> HIDE DEF left
  <1> QED BY Zenon, <1>1, <1>3, <1>4, <1>5, <1>6, <1>8, <1>10, LocalStep DEF local

(* A transaction that ends takes no lock from another one. *)
LEMMA Released ==
    ASSUME IInv, NEW c \in Calls, ReleaseLocks(c)
    PROVE  /\ keyOwner' \in [Keys -> Executes \cup {None}] /\ rowOwner' \in Executes \cup {None}
           /\ tx' \in [Calls -> TxType] /\ tx'[c] = EmptyTx /\ \A d \in Calls \ {c} : tx'[d] = tx[d]
           /\ \A k \in Keys : keyOwner'[k] # None => keyOwner[k] # None /\ keyOwner[k] # c
           /\ \A d \in Calls \ {c} : tx[d].idem # None => keyOwner'[req[d].key] = d
           /\ \A d \in Calls \ {c} : tx[d].wrote => rowOwner' = d /\ rowOwner = d
  <1>1. TypeOK /\ LockInv
    BY Zenon DEF IInv
  <1>2. keyOwner' \in [Keys -> Executes \cup {None}] /\ rowOwner' \in Executes \cup {None}
    BY Zenon, <1>1 DEF ReleaseLocks, TypeOK
  <1>3. tx' \in [Calls -> TxType] /\ tx'[c] = EmptyTx /\ \A d \in Calls \ {c} : tx'[d] = tx[d]
    BY Zenon, <1>1, EmptyFields DEF ReleaseLocks, TypeOK
  <1>4. \A k \in Keys : keyOwner'[k] # None => keyOwner[k] # None /\ keyOwner[k] # c
    BY Zenon DEF ReleaseLocks
  <1>5. \A d \in Calls \ {c} : tx[d].idem # None => keyOwner'[req[d].key] = d
    BY Zenon, <1>1 DEF ReleaseLocks, LockInv
  <1>6. \A d \in Calls \ {c} : tx[d].wrote => rowOwner' = d /\ rowOwner = d
    BY Zenon, <1>1 DEF ReleaseLocks, LockInv
  <1> QED BY Zenon, <1>2, <1>3, <1>4, <1>5, <1>6

(* The calls that keep a reserved key keep its lock. *)
LEMMA ReservedKept ==
    ASSUME IInv, NEW c \in Calls, ReleaseLocks(c), UNCHANGED local
    PROVE  \A d \in Calls : tx'[d].idem # None =>
               d \in Executes /\ req'[d] # None /\ req'[d].key \in Keys /\ keyOwner'[req'[d].key] = d
  <1> SUFFICES ASSUME NEW d \in Calls, tx'[d].idem # None
               PROVE  d \in Executes /\ req'[d] # None /\ req'[d].key \in Keys /\ keyOwner'[req'[d].key] = d
    BY Zenon
  <1>1. d # c
    BY Zenon, Released, EmptyFields
  <1>2. tx'[d] = tx[d] /\ req' = req
    BY Zenon, <1>1, Released DEF local
  <1>3. tx[d].idem # None
    BY Zenon, <1>2
  <1>4. d \in Executes /\ req[d] # None /\ req[d].key \in Keys
    BY Zenon, <1>3 DEF IInv, LockInv
  <1>5. keyOwner'[req[d].key] = d
    BY Zenon, <1>1, <1>3, Released
  <1> QED BY Zenon, <1>2, <1>4, <1>5

LEMMA AbortKeeps ==
    ASSUME IInv, NEW c \in Calls, ReleaseLocks(c), UNCHANGED <<policy, now, tables, local, reply, resp, seen>>,
           pc' \in [Calls -> Labels], \A d \in Calls \ {c} : pc'[d] = pc[d],
           pc'[c] \in EndedLabels, pc[c] # "idle"
    PROVE  IInv'
  <1>0. LocalsSet(c) /\ Writes(c) /\ TypeOK
    BY Zenon DEF IInv, CallInv
  <1>1. TypeOK'
    BY Zenon, <1>0, Released DEF TypeOK, tables, local
  <1>2. LocalsSet(c)'
    BY Zenon, <1>0 DEF LocalsSet, local, EndedLabels, KeyLabels, PlanLabels, DecLabels, FoundLabels, MainLabels
  <1>3. tx'[c] = EmptyTx
    BY Zenon, Released
  <1>4. Writes(c)'
    BY Zenon, <1>3, EmptyFields DEF Writes, CleanLabels, EndedLabels, PreTxLabels, BeginLabels
  <1>5. LockInv'
    <2>2. \A d \in Calls : tx'[d].wrote => d # c
      BY Zenon, <1>3, EmptyFields
    <2>3. \A d \in Calls : tx'[d].idem # None =>
              d \in Executes /\ req'[d] # None /\ req'[d].key \in Keys /\ keyOwner'[req'[d].key] = d
      BY Zenon, ReservedKept
    <2>4. \A d \in Calls : tx'[d].wrote =>
              d \in Executes /\ rowOwner' = d /\ plan'[d] # None /\ version' = plan'[d].snap
      BY Zenon, <2>2, Released DEF IInv, LockInv, tables, local
    <2>5. \A k \in Keys : keyOwner'[k] # None => idem'[k] = None
      BY Zenon, Released DEF IInv, LockInv, tables
    <2> QED BY Zenon, <2>3, <2>4, <2>5 DEF LockInv
  <1> QED BY Zenon, <1>1, <1>2, <1>3, <1>4, <1>5, Released, CallStep DEF local

LEMMA RolledBackKeeps ==
    ASSUME IInv, NEW c \in Calls, RolledBack(c)
    PROVE  IInv'
  <1>1. TypeOK /\ pc[c] = "rollback" /\ pc' = [pc EXCEPT ![c] = "reply"]
    BY Zenon DEF IInv, RolledBack, Goto
  <1>2. pc' \in [Calls -> Labels] /\ pc'[c] \in EndedLabels /\ \A d \in Calls \ {c} : pc'[d] = pc[d]
    BY Zenon, <1>1 DEF TypeOK, Labels, EndedLabels
  <1> QED BY Zenon, <1>1, <1>2, AbortKeeps DEF RolledBack

LEMMA OrphanAbortKeeps ==
    ASSUME IInv, NEW c \in Calls, OrphanAbort(c)
    PROVE  IInv'
  <1>1. pc[c] \in EndedLabels /\ pc[c] # "idle" /\ TypeOK /\ UNCHANGED pc
    BY Zenon DEF IInv, CallInv, Writes, OrphanAbort, EndedLabels
  <1> QED BY Zenon, <1>1, AbortKeeps DEF OrphanAbort, TypeOK

-----------------------------------------------------------------------------
(* Commit. *)

NewEffect(c) == [call |-> c, key |-> req[c].key, input |-> req[c].input, plan |-> plan[c], fp |-> dec[c],
                 result |-> Result(c)]

(* What is true of a transaction that is about to commit a mutation: no    *)
(* effect has its call, its key or its version yet.                        *)
LEMMA CommitsFreshEffect ==
    ASSUME IInv, NEW c \in Calls, Complete(c), tx[c].wrote
    PROVE  /\ c \in Executes /\ req[c] # None /\ plan[c] # None /\ dec[c] # None
           /\ NewEffect(c) \in EffectType /\ NewEffect(c).result = version + 1
           /\ \A e \in effects : e.call # c /\ e.result # version + 1
           /\ \A e \in effects : req[c].key # None => e.key # req[c].key
           /\ tx[c].idem = CompletedRecord(c)
  <1>1. c \in Executes /\ req[c] # None /\ plan[c] # None /\ dec[c] # None /\ tx[c].idem = CompletedRecord(c)
    BY Zenon DEF Complete
  <1>2. TypeOK /\ version = plan[c].snap
    BY Zenon DEF IInv, LockInv
  <1>3. Result(c) = version + 1 /\ Result(c) \in Nat
    BY Zenon, <1>1, <1>2, RecordTypes DEF Result
  <1>4. req[c] \in RequestType /\ plan[c] \in PlanType /\ dec[c] \in Policies
    BY Zenon, <1>1, <1>2 DEF TypeOK
  <1>5. NewEffect(c) \in EffectType /\ NewEffect(c).result = version + 1
    BY Zenon, <1>1, <1>3, <1>4 DEF NewEffect, EffectType, RequestType
  <1>6. \A e \in effects : e.call # c
    BY Zenon, EmptyFields DEF IInv, EffectEnded
  <1>7. \A e \in effects : e.result # version + 1
    <2>1. {e.result : e \in effects} = 1..version /\ version \in Nat
      BY Zenon, <1>2 DEF IInv, SerialVersions, TypeOK
    <2>2. \A e \in effects : e.result \in 1..version
      BY Zenon, <2>1
    <2> QED BY <2>1, <2>2
  <1>8. ASSUME req[c].key # None, NEW e \in effects, e.key = req[c].key PROVE FALSE
    <2>1. Record(c, "completed", Result(c)) # None
      BY Zenon, <1>1, <1>2, RecordTypes, NoneAssumption
    <2>2. tx[c].idem # None
      BY Zenon, <1>1, <1>8, <2>1 DEF CompletedRecord
    <2>3. req[c].key \in Keys /\ keyOwner[req[c].key] = c
      BY Zenon, <2>2 DEF IInv, LockInv
    <2>4. idem[req[c].key] = None
      BY Zenon, <2>3, CallAssumption DEF IInv, LockInv, Calls
    <2> QED BY Zenon, <1>8, <2>4 DEF IInv, EvidenceAtomic
  <1> QED BY Zenon, <1>1, <1>5, <1>6, <1>7, <1>8

(* The invariants of the tables over a commit that adds an effect. *)
LEMMA EffectTables ==
    ASSUME IInv, NEW c \in Calls, Complete(c), tx[c].wrote, tx[c].audit, ApplyTx(c)
    PROVE  /\ AtMostOncePerKey' /\ EvidenceAtomic' /\ SerialVersions'
           /\ effects' = effects \cup {NewEffect(c)} /\ version' = version + 1
           /\ idem' = IF req[c].key = None THEN idem ELSE [idem EXCEPT ![req[c].key] = Record(c, "completed", Result(c))]
           /\ audits' = audits \cup {c}
  <1>0. TypeOK /\ version \in Nat
    BY Zenon DEF IInv, TypeOK
  <1>1. /\ c \in Executes /\ NewEffect(c) \in EffectType /\ NewEffect(c).result = version + 1
        /\ \A e \in effects : e.call # c /\ e.result # version + 1
        /\ \A e \in effects : req[c].key # None => e.key # req[c].key
    BY Zenon, CommitsFreshEffect
  <1>2. effects' = effects \cup {NewEffect(c)} /\ version' = version + 1 /\ audits' = audits \cup {c}
    BY Zenon DEF ApplyTx, NewEffect
  <1>3. idem' = IF req[c].key = None THEN idem ELSE [idem EXCEPT ![req[c].key] = Record(c, "completed", Result(c))]
    <2>1. tx[c].idem = CompletedRecord(c) /\ Record(c, "completed", Result(c)) # None
      BY Zenon, <1>0, CommitsFreshEffect, RecordTypes, NoneAssumption
    <2> QED BY Zenon, <2>1 DEF ApplyTx, CompletedRecord
  <1>4. NewEffect(c).call = c /\ NewEffect(c).key = req[c].key
    BY Zenon DEF NewEffect
  <1>5. AtMostOncePerKey'
    <2>1. \A e \in effects : e.call # NewEffect(c).call /\ (e.key # None => e.key # NewEffect(c).key)
      BY Zenon, <1>1, <1>4
    <2> QED BY Zenon, <1>2, <2>1 DEF IInv, AtMostOncePerKey
  <1>6. SerialVersions'
    <2>1. {e.result : e \in effects'} = {e.result : e \in effects} \cup {version + 1}
      BY Zenon, <1>1, <1>2
    <2>2. (1..version) \cup {version + 1} = 1..(version + 1)
      BY <1>0
    <2>3. \A e, f \in effects' : e.result = f.result => e = f
      <3>1. \A e, f \in effects : e.result = f.result => e = f
        BY Zenon DEF IInv, SerialVersions
      <3>2. \A e \in effects' : e \in effects \/ e = NewEffect(c)
        BY Zenon, <1>2
      <3>3. \A e \in effects : e.result # NewEffect(c).result
        BY Zenon, <1>1
      <3> QED BY Zenon, <3>1, <3>2, <3>3
    <2>4. {e.result : e \in effects} = 1..version
      BY Zenon DEF IInv, SerialVersions
    <2> QED BY Zenon, <1>2, <2>1, <2>2, <2>3, <2>4 DEF SerialVersions
  <1>7. EvidenceAtomic'
    <2>1. audits' \cap Executes = {e.call : e \in effects'}
      <3>1. {e.call : e \in effects'} = {e.call : e \in effects} \cup {c}
        BY Zenon, <1>2, <1>4
      <3>2. audits \cap Executes = {e.call : e \in effects}
        BY Zenon DEF IInv, EvidenceAtomic
      <3>3. audits' \cap Executes = (audits \cap Executes) \cup {c}
        BY Zenon, <1>1, <1>2
      <3> QED BY Zenon, <3>1, <3>2, <3>3
    <2>2. \A e \in effects' : e.key # None => idem'[e.key] # None
      <3>1. Record(c, "completed", Result(c)) # None
        BY Zenon, <1>0, CommitsFreshEffect, RecordTypes, NoneAssumption
      <3>2. \A e \in effects : e.key \in Keys \cup {None}
        BY Zenon, <1>0 DEF TypeOK, EffectType
      <3>3. req[c].key \in Keys \cup {None}
        BY Zenon, <1>1, <1>4 DEF EffectType
      <3> QED BY Zenon, <1>0, <1>1, <1>2, <1>3, <1>4, <3>1, <3>2, <3>3 DEF IInv, EvidenceAtomic, TypeOK
    <2>3. ASSUME NEW k \in Keys, idem'[k] # None
          PROVE  \E e \in effects' : /\ e.key = k
                                     /\ idem'[k] = [input |-> e.input, plan |-> e.plan, fp |-> e.fp,
                                                    status |-> "completed", result |-> e.result]
      <3>1. CASE k = req[c].key
        <4>1. idem'[k] = Record(c, "completed", Result(c))
          BY Zenon, <1>0, <1>3, <3>1, CallAssumption DEF TypeOK
        <4>2. idem'[k] = [input |-> NewEffect(c).input, plan |-> NewEffect(c).plan, fp |-> NewEffect(c).fp,
                          status |-> "completed", result |-> NewEffect(c).result]
          BY Zenon, <4>1 DEF Record, NewEffect
        <4> QED BY Zenon, <1>2, <1>4, <3>1, <4>2
      <3>2. CASE k # req[c].key
        <4>1. idem'[k] = idem[k]
          BY Zenon, <1>0, <1>3, <3>2 DEF TypeOK
        <4>2. PICK e \in effects : /\ e.key = k
                                   /\ idem[k] = [input |-> e.input, plan |-> e.plan, fp |-> e.fp,
                                                 status |-> "completed", result |-> e.result]
          BY Zenon, <2>3, <4>1 DEF IInv, EvidenceAtomic
        <4> QED BY Zenon, <1>2, <4>1, <4>2
      <3> QED BY Zenon, <3>1, <3>2
    <2> QED BY Zenon, <2>1, <2>2, <2>3 DEF EvidenceAtomic
  <1> QED BY Zenon, <1>2, <1>3, <1>5, <1>6, <1>7

(* A commit, answered or not. *)
LEMMA CommitKeeps ==
    ASSUME IInv, NEW c \in Calls, Complete(c), c \in Executes /\ found[c] = None => tx[c].audit,
           ApplyTx(c), ReleaseLocks(c), UNCHANGED <<policy, now, local, resp, seen>>,
           pc' \in [Calls -> Labels], \A d \in Calls \ {c} : pc'[d] = pc[d], pc'[c] \in EndedLabels,
           pc[c] # "idle", reply' \in [Calls -> AnswerType \cup {None}]
    PROVE  IInv'
  <1>0. LocalsSet(c) /\ Writes(c) /\ TypeOK /\ version \in Nat
    BY Zenon DEF IInv, CallInv, TypeOK
  <1>1. tx'[c] = EmptyTx /\ \A d \in Calls \ {c} : tx'[d] = tx[d]
    BY Zenon, Released
  <1>2. CallInv'
    <2> SUFFICES ASSUME NEW d \in Calls PROVE LocalsSet(d)' /\ Writes(d)'
      BY Zenon DEF CallInv
    <2>1. CASE d = c
      <3>1. LocalsSet(c)'
        BY Zenon, <1>0 DEF LocalsSet, local, EndedLabels, KeyLabels, PlanLabels, DecLabels, FoundLabels, MainLabels
      <3>2. Writes(c)'
        BY Zenon, <1>1, EmptyFields DEF Writes, CleanLabels, EndedLabels, PreTxLabels, BeginLabels
      <3> QED BY Zenon, <2>1, <3>1, <3>2
    <2>2. CASE d # c
      <3>1. LocalsSet(d) /\ Writes(d) /\ tx'[d] = tx[d] /\ pc'[d] = pc[d]
        BY Zenon, <1>1, <2>2 DEF IInv, CallInv
      <3>2. LocalsSet(d)'
        BY Zenon, <3>1 DEF LocalsSet, local
      <3>3. Writes(d)'
        BY Zenon, <3>1 DEF Writes, Complete, RunningRecord, CompletedRecord, Record, Result, local
      <3> QED BY Zenon, <3>2, <3>3
    <2> QED BY Zenon, <2>1, <2>2
  <1>3. plans' \subseteq PlanType
    BY Zenon, <1>0 DEF ApplyTx, TypeOK, TxType
  <1>4. \A d \in Calls : tx'[d].wrote => d # c /\ tx[d].wrote
    BY Zenon, <1>1, EmptyFields
  <1>5. \A d \in Calls : tx'[d].idem # None => d # c /\ tx[d].idem # None
    BY Zenon, <1>1, EmptyFields
  <1>6. CASE tx[c].wrote
    <2>1. c \in Executes /\ found[c] = None /\ tx[c].audit
      BY Zenon, <1>6 DEF Complete
    <2>2. /\ AtMostOncePerKey' /\ EvidenceAtomic' /\ SerialVersions'
          /\ effects' = effects \cup {NewEffect(c)} /\ version' = version + 1 /\ audits' = audits \cup {c}
          /\ idem' = IF req[c].key = None THEN idem ELSE [idem EXCEPT ![req[c].key] = Record(c, "completed", Result(c))]
      BY Zenon, <1>6, <2>1, EffectTables
    <2>3. NewEffect(c) \in EffectType /\ NewEffect(c).call = c /\ Record(c, "completed", Result(c)) \in RecordType
      BY Zenon, <1>0, <1>6, CommitsFreshEffect, RecordTypes DEF NewEffect
    <2>4. TypeOK'
      <3>1. idem' \in [Keys -> RecordType \cup {None}]
        BY Zenon, <1>0, <2>2, <2>3 DEF TypeOK
      <3>2. effects' \subseteq EffectType /\ audits' \subseteq Calls
        BY Zenon, <1>0, <2>2, <2>3 DEF TypeOK
      <3>3. version' \in Nat
        <4>1. version' = version + 1
          BY Zenon, <2>2
        <4> QED BY SMT, <1>0, <4>1
      <3> QED BY Zenon, <1>0, <1>3, <3>1, <3>2, <3>3, Released DEF TypeOK, local
    <2>5. EffectEnded'
      <3>1. \A e \in effects : e.call # c /\ e.call \in Calls
        BY Zenon, <1>0, <1>6, CommitsFreshEffect DEF TypeOK, EffectType, Calls
      <3> QED BY Zenon, <1>1, <2>2, <2>3, <3>1 DEF IInv, EffectEnded
    <2>6. LockInv'
      <3>1. \A d \in Calls : ~tx'[d].wrote
        <4>1. rowOwner = c
          BY Zenon, <1>6 DEF IInv, LockInv
        <4> QED BY Zenon, <1>4, <4>1 DEF IInv, LockInv
      <3>2. \A k \in Keys : keyOwner'[k] # None => idem'[k] = None
        <4> SUFFICES ASSUME NEW k \in Keys, keyOwner'[k] # None PROVE idem'[k] = None
          BY Zenon
        <4>1. keyOwner[k] # None /\ keyOwner[k] # c /\ idem[k] = None
          BY Zenon, Released DEF IInv, LockInv
        <4>2. req[c].key # None => tx[c].idem # None
          <5>1. tx[c].idem = CompletedRecord(c)
            BY Zenon, <1>6, CommitsFreshEffect
          <5>2. Record(c, "completed", Result(c)) # None
            BY Zenon, <2>3, NoneAssumption
          <5> QED BY Zenon, <5>1, <5>2 DEF CompletedRecord
        <4>3. k # req[c].key
          <5>1. k # None
            BY Zenon, CallAssumption
          <5> QED BY Zenon, <4>1, <4>2, <5>1 DEF IInv, LockInv
        <4> QED BY Zenon, <1>0, <2>2, <4>1, <4>3 DEF TypeOK
      <3>3. \A d \in Calls : tx'[d].idem # None =>
                d \in Executes /\ req'[d] # None /\ req'[d].key \in Keys /\ keyOwner'[req'[d].key] = d
        BY Zenon, ReservedKept
      <3> QED BY Zenon, <3>1, <3>2, <3>3 DEF LockInv
    <2> QED BY Zenon, <1>2, <2>2, <2>4, <2>5, <2>6 DEF IInv
  <1>7. CASE ~tx[c].wrote
    <2>1. tx[c].idem = None /\ (c \in Executes => ~tx[c].audit)
      BY Zenon, <1>7 DEF Complete
    <2>2. UNCHANGED <<idem, version, effects>> /\ audits' \cap Executes = audits \cap Executes /\ audits' \subseteq audits \cup {c}
      BY Zenon, <1>7, <2>1 DEF ApplyTx
    <2>3. TypeOK'
      <3>1. /\ keyOwner' \in [Keys -> Executes \cup {None}] /\ rowOwner' \in Executes \cup {None}
            /\ tx' \in [Calls -> TxType]
        BY Zenon, Released
      <3>2. audits' \subseteq Calls
        BY Zenon, <1>0, <2>2 DEF TypeOK
      <3>3. effects' \subseteq EffectType /\ idem' \in [Keys -> RecordType \cup {None}] /\ version' \in Nat
        BY Zenon, <1>0, <2>2 DEF TypeOK
      <3> QED BY Zenon, <1>0, <1>3, <3>1, <3>2, <3>3 DEF TypeOK, local
    <2>4. AtMostOncePerKey' /\ EvidenceAtomic' /\ SerialVersions'
      <3>1. AtMostOncePerKey' /\ SerialVersions'
        BY Zenon, <2>2 DEF IInv, AtMostOncePerKey, SerialVersions
      <3>2. EvidenceAtomic /\ idem' = idem /\ effects' = effects
        BY Zenon, <2>2 DEF IInv
      <3>3. EvidenceAtomic'
        BY Zenon, <2>2, <3>2, EvidenceSame
      <3> QED BY Zenon, <3>1, <3>3
    <2>5. EffectEnded'
      BY Zenon, <1>0, <1>1, <2>2 DEF IInv, EffectEnded, TypeOK, EffectType, Calls
    <2>6. LockInv'
      <3>1. \A d \in Calls : tx'[d].idem # None =>
                d \in Executes /\ req'[d] # None /\ req'[d].key \in Keys /\ keyOwner'[req'[d].key] = d
        BY Zenon, ReservedKept
      <3>2. \A d \in Calls : tx'[d].wrote =>
                d \in Executes /\ rowOwner' = d /\ plan'[d] # None /\ version' = plan'[d].snap
        BY Zenon, <1>4, <2>2, Released DEF IInv, LockInv, local
      <3>3. \A k \in Keys : keyOwner'[k] # None => idem'[k] = None
        BY Zenon, <2>2, Released DEF IInv, LockInv
      <3> QED BY Zenon, <3>1, <3>2, <3>3 DEF LockInv
    <2> QED BY Zenon, <1>2, <2>3, <2>4, <2>5, <2>6 DEF IInv
  <1> QED BY Zenon, <1>6, <1>7

LEMMA CommittedKeeps ==
    ASSUME IInv, NEW c \in Calls, Committed(c)
    PROVE  IInv'
  <1>0. LocalsSet(c) /\ Writes(c) /\ TypeOK /\ pc[c] = "txCommit" /\ pc' = [pc EXCEPT ![c] = "reply"]
    BY Zenon DEF IInv, CallInv, Committed, Goto
  <1>1. Complete(c) /\ (c \in Executes /\ found[c] = None => tx[c].audit)
    BY Zenon, <1>0 DEF Writes
  <1>2. pc' \in [Calls -> Labels] /\ pc'[c] \in EndedLabels /\ \A d \in Calls \ {c} : pc'[d] = pc[d]
    BY Zenon, <1>0 DEF TypeOK, Labels, EndedLabels
  <1>3. Success(c) \in Nat \cup {None}
    <2>1. CASE c \in Previews
      BY Zenon, <2>1 DEF Success
    <2>2. CASE c \notin Previews /\ found[c] # None
      BY Zenon, <1>0, <2>2 DEF Success, TypeOK, RecordType
    <2>3. CASE c \notin Previews /\ found[c] = None
      <3>1. req[c] # None /\ plan[c] # None /\ dec[c] # None
        BY Zenon, <1>1, <2>3 DEF Complete, Calls
      <3> QED BY Zenon, <1>0, <2>3, <3>1, RecordTypes DEF Success
    <2> QED BY Zenon, <2>1, <2>2, <2>3
  <1>4. Answer("ok", "ok", Success(c)) \in AnswerType
    BY Zenon, <1>3 DEF Answer, AnswerType, Codes
  <1>5. reply' \in [Calls -> AnswerType \cup {None}]
    BY Zenon, <1>0, <1>4 DEF Committed, TypeOK
  <1> QED BY Zenon, <1>0, <1>1, <1>2, <1>5, CommitKeeps DEF Committed

LEMMA OrphanCommitKeeps ==
    ASSUME IInv, NEW c \in Calls, OrphanCommit(c)
    PROVE  IInv'
  <1>0. Writes(c) /\ TypeOK /\ tx[c].orphan = "commit"
    BY Zenon DEF IInv, CallInv, OrphanCommit
  <1>1. Complete(c) /\ (c \in Executes /\ found[c] = None => tx[c].audit) /\ pc[c] \in EndedLabels /\ pc[c] # "idle"
    BY Zenon, <1>0 DEF Writes, EndedLabels
  <1> QED BY Zenon, <1>0, <1>1, CommitKeeps DEF OrphanCommit, TypeOK

-----------------------------------------------------------------------------
(* The environment. *)

LEMMA EnvironmentKeeps ==
    ASSUME IInv, CleanupExpiredPlans \/ ChangePolicy \/ Tick
    PROVE  IInv'
  <1>1. /\ UNCHANGED <<version, idem, effects, audits, locks, pc, local, tx, reply, resp>>
        /\ TypeOK
    BY Zenon DEF IInv, CleanupExpiredPlans, ChangePolicy, Tick, tables
  <1>2. plans' \subseteq PlanType /\ policy' \in Policies \cup {Deny} /\ now' \in 0..MaxTime
        /\ seen' \in [Calls -> SUBSET (Policies \cup {Deny})]
    <2>1. CASE CleanupExpiredPlans
      BY Zenon, <1>1, <2>1 DEF CleanupExpiredPlans, TypeOK
    <2>2. CASE ChangePolicy
      BY Zenon, <1>1, <2>2 DEF ChangePolicy, TypeOK, tables
    <2>3. CASE Tick
      BY <1>1, <2>3, TimeAssumption DEF Tick, TypeOK, tables
    <2> QED BY Zenon, <2>1, <2>2, <2>3
  <1>3. TypeOK'
    BY Zenon, <1>1, <1>2 DEF TypeOK, locks, local
  <1>4. CallInv'
    <2> SUFFICES ASSUME NEW d \in Calls PROVE LocalsSet(d)' /\ Writes(d)'
      BY Zenon DEF CallInv
    <2>1. LocalsSet(d) /\ Writes(d)
      BY Zenon DEF IInv, CallInv
    <2>2. LocalsSet(d)'
      BY Zenon, <1>1, <2>1 DEF LocalsSet, local
    <2>3. Writes(d)'
      BY Zenon, <1>1, <2>1 DEF Writes, Complete, RunningRecord, CompletedRecord, Record, Result, local
    <2> QED BY Zenon, <2>2, <2>3
  <1>5. LockInv' /\ EffectEnded'
    BY Zenon, <1>1 DEF IInv, LockInv, EffectEnded, locks, local
  <1>6. AtMostOncePerKey' /\ SerialVersions'
    <2>1. AtMostOncePerKey /\ SerialVersions
      BY Zenon DEF IInv
    <2> QED BY Zenon, <1>1, <2>1 DEF AtMostOncePerKey, SerialVersions
  <1>7. EvidenceAtomic'
    <2>1. EvidenceAtomic
      BY Zenon DEF IInv
    <2> QED BY Zenon, <1>1, <2>1, EvidenceSame
  <1> QED BY Zenon, <1>3, <1>4, <1>5, <1>6, <1>7 DEF IInv

LEMMA StutterKeeps ==
    ASSUME IInv, UNCHANGED vars
    PROVE  IInv'
  <1>1. TypeOK'
    BY Zenon DEF IInv, TypeOK, vars, tables, locks, local
  <1>2. CallInv'
    <2> SUFFICES ASSUME NEW d \in Calls PROVE LocalsSet(d)' /\ Writes(d)'
      BY Zenon DEF CallInv
    <2>1. LocalsSet(d) /\ Writes(d)
      BY Zenon DEF IInv, CallInv
    <2>2. LocalsSet(d)'
      BY Zenon, <2>1 DEF LocalsSet, vars, local
    <2>3. Writes(d)'
      BY Zenon, <2>1 DEF Writes, Complete, RunningRecord, CompletedRecord, Record, Result, vars, local
    <2> QED BY Zenon, <2>2, <2>3
  <1>3. LockInv' /\ EffectEnded'
    BY Zenon DEF IInv, LockInv, EffectEnded, vars, tables, locks, local
  <1>4. AtMostOncePerKey' /\ SerialVersions'
    <2>1. AtMostOncePerKey /\ SerialVersions
      BY Zenon DEF IInv
    <2> QED BY Zenon, <2>1 DEF AtMostOncePerKey, SerialVersions, vars, tables
  <1>5. EvidenceAtomic'
    <2>1. EvidenceAtomic
      BY Zenon DEF IInv
    <2> QED BY Zenon, <2>1, EvidenceSame DEF vars, tables
  <1> QED BY Zenon, <1>1, <1>2, <1>3, <1>4, <1>5 DEF IInv

-----------------------------------------------------------------------------
(* Every step of Preview, Execute, the server and the environment keeps    *)
(* the invariant.                                                          *)
LEMMA NextIInv == IInv /\ [Next]_vars => IInv'
  <1> SUFFICES ASSUME IInv, [Next]_vars PROVE IInv'
    BY Zenon
  <1>1. ASSUME NEW c \in Previews, PreviewStart(c) \/ PreviewStep(c) PROVE IInv'
    BY Zenon, <1>1, PreviewStartKeeps, PreviewPlanKeeps, PreviewImpactKeeps, PreviewTxIntentKeeps, PreviewTxImpactKeeps,
        PreviewSaveKeeps DEF PreviewStep
  <1>2. ASSUME NEW c \in Executes, ExecuteStart(c) \/ ExecuteStep(c) PROVE IInv'
    BY Zenon, <1>2, ExecuteStartKeeps, ExecuteLookupKeeps, ExecuteResolveKeeps, ExecuteImpactKeeps, TxIntentKeeps,
        TxImpactKeeps, TxReserveKeeps, HandlerReadKeeps, HandlerWriteKeeps, TxCompleteKeeps, TxAbortKeeps,
        ReplayReadKeeps, ReplayIntentKeeps, ReplayImpactKeeps DEF ExecuteStep
  <1>3. ASSUME NEW c \in Calls, EndStep(c) \/ DependencyFailure(c) \/ Crash(c) \/ Orphan(c) PROVE IInv'
    BY Zenon, <1>3, TxAuditKeeps, CommittedKeeps, CommitInDoubtKeeps, RolledBackKeeps, RollbackInDoubtKeeps, RespondKeeps,
        DependencyFailureKeeps, CrashKeeps, OrphanCommitKeeps, OrphanAbortKeeps DEF EndStep, Orphan
  <1>4. CASE CleanupExpiredPlans \/ ChangePolicy \/ Tick
    BY Zenon, <1>4, EnvironmentKeeps
  <1>5. CASE UNCHANGED vars
    BY Zenon, <1>5, StutterKeeps
  <1> QED BY Zenon, <1>1, <1>2, <1>3, <1>4, <1>5 DEF Next

LEMMA Invariance == Spec => []IInv
  BY InitIInv, NextIInv, PTL DEF Spec

(* The values Preview and Execute store and pass around keep the types     *)
(* their Go declarations give them.                                        *)
THEOREM TypeCorrect == Spec => []TypeOK
  <1>1. IInv => TypeOK
    BY Zenon DEF IInv
  <1> QED BY <1>1, Invariance, PTL

(* For any number of concurrent calls, retries and keys: a key takes       *)
(* effect at most once, and so does a call, because the INSERT of Reserve  *)
(* is held until its transaction ends.                                     *)
THEOREM ExecutesOnce == Spec => []AtMostOncePerKey
  <1>1. IInv => AtMostOncePerKey
    BY Zenon DEF IInv
  <1> QED BY <1>1, Invariance, PTL

(* ADR-002 in general: the mutation, the completed record and the allowed  *)
(* event are visible together or not at all, whatever crashes and whichever*)
(* commits are in doubt.                                                   *)
THEOREM EvidenceCommitsTogether == Spec => []EvidenceAtomic
  <1>1. IInv => EvidenceAtomic
    BY Zenon DEF IInv
  <1> QED BY <1>1, Invariance, PTL

(* The Handler's conditional UPDATE loses no update, whatever the plans    *)
(* were made from.                                                         *)
THEOREM NoLostUpdate == Spec => []SerialVersions
  <1>1. IInv => SerialVersions
    BY Zenon DEF IInv
  <1> QED BY <1>1, Invariance, PTL

(* The effects of any number of calls, whatever fails, are those of a      *)
(* serial execution that takes every key and every call at most once.      *)
THEOREM EffectsOnceInOrder == Spec => []OnceAndInOrder
BY ExecutesOnce, NoLostUpdate, PTL DEF OnceAndInOrder

(* A commit leaves the records of other keys, and of its own key there    *)
(* was none.                                                               *)
LEMMA RecordKept ==
    ASSUME IInv, NEW c \in Calls, ApplyTx(c)
    PROVE  \A k \in Keys : idem[k] # None => idem'[k] = idem[k]
  <1>1. CASE tx[c].idem = None
    BY Zenon, <1>1 DEF ApplyTx
  <1>2. CASE tx[c].idem # None
    <2>1. req[c].key \in Keys /\ keyOwner[req[c].key] = c /\ c # None
      BY Zenon, <1>2, CallAssumption DEF IInv, LockInv
    <2>2. idem[req[c].key] = None
      BY Zenon, <2>1 DEF IInv, LockInv
    <2> QED BY Zenon, <1>2, <2>2 DEF ApplyTx, IInv, TypeOK
  <1> QED BY Zenon, <1>1, <1>2

(* A completed record outlives every later step: nothing rewrites or       *)
(* deletes it, so a lost response can always be retried.                   *)
THEOREM RecordsFinal == Spec => CompletedIsFinal
  <1> DEFINE Kept == \A k \in Keys : idem[k] # None => idem'[k] = idem[k]
  <1>1. ASSUME IInv, NEW c \in Calls, ApplyTx(c) PROVE Kept
    BY Zenon, <1>1, RecordKept
  <1>2. ASSUME IInv, Next PROVE Kept
    <2>1. ASSUME NEW c \in Previews, PreviewStart(c) \/ PreviewStep(c) PROVE idem' = idem
      BY Zenon, <2>1 DEF PreviewStart, PreviewStep, PreviewPlan, PreviewImpact, PreviewTxIntent, PreviewTxImpact, PreviewSave,
          tables
    <2>2. ASSUME NEW c \in Executes, ExecuteStart(c) \/ ExecuteStep(c) PROVE idem' = idem
      BY Zenon, <2>2 DEF ExecuteStart, ExecuteStep, ExecuteLookup, ExecuteResolve, ExecuteImpact, TxIntent, TxImpact, TxReserve,
          HandlerRead, HandlerWrite, TxComplete, TxAbort, ReplayRead, ReplayIntent, ReplayImpact, tables
    <2>3. ASSUME NEW c \in Calls, EndStep(c) \/ DependencyFailure(c) \/ Crash(c) \/ Orphan(c)
          PROVE  idem' = idem \/ ApplyTx(c)
      BY Zenon, <2>3 DEF EndStep, TxAudit, Committed, CommitInDoubt, RolledBack, RollbackInDoubt, Respond, DependencyFailure,
          Crash, Orphan, OrphanCommit, OrphanAbort, tables
    <2>4. CleanupExpiredPlans \/ ChangePolicy \/ Tick => idem' = idem
      BY Zenon DEF CleanupExpiredPlans, ChangePolicy, Tick, tables
    <2> QED BY Zenon, <1>1, <1>2, <2>1, <2>2, <2>3, <2>4 DEF Next
  <1>3. IInv /\ [Next]_vars => [Kept]_vars
    BY Zenon, <1>2
  <1> QED BY <1>3, Invariance, PTL DEF Spec, CompletedIsFinal

-----------------------------------------------------------------------------
(* Plans and answers: each decision is one of the transaction it is made   *)
(* in, a plan that was named stays until it expires, and a rejection is    *)
(* true once decided.                                                      *)

IsOk(a) == a # None /\ a.kind = "ok"
Live(p) == p \in plans \/ p.exp <= now
Ready(c) == pc[c] \in {"txAudit", "txCommit"} \/ tx[c].orphan = "commit"
Working == PreTxLabels \cup BeginLabels \cup TxLabels

(* The plan a call executes is the one it named, or was made for it. *)
Bound(c) ==
    /\ plan[c] # None /\ plan[c].fp # None
    /\ plan[c].input = req[c].input
    /\ req[c].plan # None => plan[c] = req[c].plan

(* The decision of its transaction is the one the plan is bound to. *)
Decided(c) ==
    /\ Bound(c)
    /\ dec[c] = plan[c].fp /\ dec[c] \in seen[c]
    /\ ~Exceeds(dec[c], req[c].input)

(* What an answer says about its request is so. *)
Explained(c, a) ==
    a # None =>
        /\ a.code = "idempotency_conflict" =>
            LET rec == idem[req[c].key] IN
            /\ req[c] # None /\ req[c].key \in Keys /\ rec # None
            /\ rec.input # req[c].input \/ rec.plan # req[c].plan
        /\ a.code = "plan_not_found" => req[c] # None /\ req[c].plan # None /\ req[c].plan.exp <= now
        /\ a.code # "idempotency_in_progress"

(* An answer waits for the end of the transaction. *)
Answers(c) ==
    /\ reply[c] # None => pc[c] \in {"reply", "rollback", "txAbort"}
    /\ IsOk(reply[c]) => pc[c] = "reply"
    /\ resp[c] # None => pc[c] = "done"

(* What a transaction has read and will write about plans. *)
Stored(c) ==
    /\ InTx(c) => policy \in seen[c]
    /\ \A p \in tx[c].dels : p.exp <= now
    /\ tx[c].save # None => tx[c].save.fp # None

ExecuteAt(c) ==
    /\ pc[c] = "impact" /\ req[c].plan # None => plan[c] = req[c].plan /\ plan[c].fp # None
    /\ pc[c] \in {"txIntent", "txImpact"} => Bound(c)
    /\ pc[c] \in DecLabels \/ (found[c] = None /\ Ready(c)) => Decided(c)
    /\ pc[c] = "replayRead" => idem[req[c].key] # None
    /\ pc[c] \in FoundLabels => found[c] = idem[req[c].key]
    /\ pc[c] = "txCommit" /\ found[c] # None => found[c].fp \in seen[c]

ExecuteQ(c) ==
    /\ req[c] # None /\ req[c].plan # None => Live(req[c].plan)
    /\ ExecuteAt(c)
    /\ found[c] # None /\ (IsOk(reply[c]) \/ IsOk(resp[c])) => found[c].fp \in seen[c]
    /\ Explained(c, reply[c]) /\ Explained(c, resp[c])

PreviewAt(c) ==
    /\ pc[c] = "savePlan" => plan[c].fp # None /\ plan[c].fp \in seen[c] /\ plan[c].exp <= now + PlanTTL
    /\ Ready(c) =>
        /\ plan[c] # None /\ plan[c].fp # None /\ plan[c].fp \in seen[c]
        /\ tx[c].save \in {None, plan[c]}
        /\ tx[c].save = None => Live(plan[c])

PreviewQ(c) ==
    /\ PreviewAt(c)
    /\ IsOk(reply[c]) \/ IsOk(resp[c]) => plan[c] # None /\ plan[c].fp \in seen[c] /\ Live(plan[c])

CallQ(c) ==
    /\ Answers(c) /\ Stored(c)
    /\ c \in Executes => ExecuteQ(c)
    /\ c \in Previews => PreviewQ(c)

PlansBound == \A p \in plans : p.fp # None
EffectsKept == PlanFidelity /\ \A e \in effects : e.fp \in seen[e.call]

QInv == PlansBound /\ EffectsKept /\ \A c \in Calls : CallQ(c)

-----------------------------------------------------------------------------
LEMMA InitQInv == Init => QInv
  <1> SUFFICES ASSUME Init PROVE QInv
    BY Zenon
  <1>1. PlansBound /\ EffectsKept
    BY Zenon DEF Init, PlansBound, EffectsKept, PlanFidelity
  <1>2. ASSUME NEW c \in Calls PROVE CallQ(c)
    <2>1. /\ pc[c] = "idle" /\ req[c] = None /\ reply[c] = None /\ resp[c] = None
          /\ tx[c] = EmptyTx
      BY Zenon DEF Init
    <2>2. tx[c].dels = {} /\ tx[c].save = None /\ tx[c].orphan = "no"
      BY <2>1 DEF EmptyTx
    <2>3. Answers(c) /\ Stored(c)
      BY Zenon, <2>1, <2>2 DEF Answers, Stored, InTx, IsOk, TxLabels, EndLabels
    <2>4. ExecuteQ(c) /\ PreviewQ(c)
      BY Zenon, <2>1, <2>2 DEF ExecuteQ, ExecuteAt, PreviewQ, PreviewAt, Explained, IsOk, Ready, DecLabels, FoundLabels
    <2> QED BY Zenon, <2>3, <2>4 DEF CallQ
  <1> QED BY Zenon, <1>1, <1>2 DEF QInv

(* What has expired stays so. *)
LEMMA LateStays ==
    ASSUME now \in Nat, now' \in Nat, now <= now', NEW e \in Nat, e <= now PROVE e <= now'
  OBVIOUS

LEMMA EmptyPlans == EmptyTx.dels = {} /\ EmptyTx.save = None
  BY DEF EmptyTx

(* What a call relies on survives the steps of the others. *)
LEMMA OtherQ ==
    ASSUME IInv, NEW d \in Calls, CallQ(d), now \in Nat, now' \in Nat, now <= now',
           pc'[d] = pc[d], req'[d] = req[d], plan'[d] = plan[d], dec'[d] = dec[d], found'[d] = found[d],
           reply'[d] = reply[d], resp'[d] = resp[d],
           tx'[d] = tx[d] \/ (tx'[d] = EmptyTx /\ pc[d] \in EndedLabels),
           seen[d] \subseteq seen'[d], InTx(d) => policy' \in seen'[d],
           \A p \in PlanType : Live(p) => Live(p)',
           \A k \in Keys : idem[k] # None => idem'[k] = idem[k]
    PROVE  CallQ(d)'
  <1>1. /\ req[d] \in RequestType \cup {None} /\ plan[d] \in PlanType \cup {None}
        /\ found[d] \in RecordType \cup {None} /\ tx[d] \in TxType
        /\ LocalsSet(d) /\ Answers(d) /\ Stored(d)
    BY Zenon DEF IInv, TypeOK, CallInv, CallQ
  <1>2. Answers(d)'
    BY Zenon, <1>1 DEF Answers, IsOk
  <1>3. tx'[d].orphan = "commit" => tx[d].orphan = "commit" /\ tx'[d] = tx[d]
    BY Zenon, EmptyFields
  <1>4. Ready(d)' => Ready(d) /\ tx'[d].save = tx[d].save
    BY Zenon, <1>3 DEF Ready, EndedLabels
  <1>5. Stored(d)'
    <2>1. CASE tx'[d] = tx[d]
      <3>1. InTx(d)' => InTx(d)
        BY Zenon, <2>1 DEF InTx
      <3>2. \A p \in tx[d].dels : p.exp \in Nat
        BY Zenon, <1>1 DEF TxType, PlanType
      <3>3. \A p \in tx[d].dels : p.exp <= now'
        BY Zenon, <1>1, <3>2, LateStays DEF Stored
      <3> QED BY Zenon, <1>1, <2>1, <3>1, <3>3 DEF Stored
    <2>2. CASE tx'[d] = EmptyTx /\ pc[d] \in EndedLabels
      BY Zenon, <2>2, EmptyFields, EmptyPlans DEF Stored, InTx, EndedLabels, TxLabels, EndLabels
    <2> QED BY Zenon, <2>1, <2>2
  <1>6. ASSUME d \in Executes PROVE ExecuteQ(d)'
    <2>1. ExecuteQ(d)
      BY Zenon, <1>6 DEF CallQ
    <2>2. req[d] # None /\ req[d].plan # None => req[d].plan \in PlanType /\ req[d].plan.exp \in Nat
      BY Zenon, <1>1 DEF RequestType, PlanType
    <2>3. Bound(d) => Bound(d)'
      BY Zenon DEF Bound
    <2>4. Decided(d) => Decided(d)'
      BY Zenon, <2>3 DEF Decided
    <2>5. pc[d] \in {"replayRead", "replayIntent", "replayImpact"} => req[d] # None /\ req[d].key \in Keys
      BY Zenon, <1>1 DEF LocalsSet, KeyLabels, RequestType
    <2>6. ExecuteAt(d)'
      <3>1. ExecuteAt(d)
        BY Zenon, <2>1 DEF ExecuteQ
      <3>2. pc[d] = "replayRead" => idem'[req[d].key] # None
        BY Zenon, <2>5, <3>1 DEF ExecuteAt
      <3>3. pc[d] \in FoundLabels => found[d] = idem'[req[d].key]
        BY Zenon, <1>1, <2>5, <3>1 DEF ExecuteAt, LocalsSet, FoundLabels
      <3>4. pc[d] \in DecLabels \/ (found[d] = None /\ Ready(d)') => Decided(d)'
        BY Zenon, <1>4, <2>4, <3>1 DEF ExecuteAt
      <3>5. pc[d] = "txCommit" /\ found[d] # None => found[d].fp \in seen'[d]
        BY Zenon, <3>1 DEF ExecuteAt
      <3>6. pc[d] \in {"txIntent", "txImpact"} => Bound(d)'
        BY Zenon, <2>3, <3>1 DEF ExecuteAt
      <3>7. pc[d] = "impact" /\ req[d].plan # None => plan[d] = req[d].plan /\ plan[d].fp # None
        BY Zenon, <3>1 DEF ExecuteAt
      <3> QED BY Zenon, <3>2, <3>3, <3>4, <3>5, <3>6, <3>7 DEF ExecuteAt
    <2>7. ASSUME NEW a, Explained(d, a) PROVE Explained(d, a)'
      <3>1. a # None /\ a.code = "plan_not_found" => req[d].plan.exp <= now'
        BY Zenon, <2>2, <2>7, LateStays DEF Explained
      <3> QED BY Zenon, <2>7, <3>1 DEF Explained
    <2>8. Explained(d, reply[d])' /\ Explained(d, resp[d])'
      <3>1. Explained(d, reply[d]) /\ Explained(d, resp[d])
        BY Zenon, <2>1 DEF ExecuteQ
      <3> QED BY Zenon, <2>7, <3>1
    <2>9. found[d] # None /\ (IsOk(reply[d]) \/ IsOk(resp[d])) => found[d].fp \in seen'[d]
      BY Zenon, <2>1 DEF ExecuteQ
    <2>10. req[d] # None /\ req[d].plan # None => Live(req[d].plan)'
      BY Zenon, <2>1, <2>2 DEF ExecuteQ
    <2> QED BY Zenon, <2>6, <2>8, <2>9, <2>10 DEF ExecuteQ, IsOk, Live
  <1>7. ASSUME d \in Previews PROVE PreviewQ(d)'
    <2>1. PreviewQ(d)
      BY Zenon, <1>7 DEF CallQ
    <2>2. pc[d] = "savePlan" => plan[d].exp <= now' + PlanTTL
      <3>1. pc[d] = "savePlan" => plan[d].exp \in Nat /\ plan[d].exp <= now + PlanTTL
        BY Zenon, <1>1, <2>1 DEF LocalsSet, PlanLabels, PlanType, PreviewQ, PreviewAt
      <3> QED BY <3>1, TimeAssumption
    <2>3. plan[d] # None /\ Live(plan[d]) => Live(plan[d])'
      BY Zenon, <1>1
    <2>4. PreviewAt(d)'
      <3>1. PreviewAt(d)
        BY Zenon, <2>1 DEF PreviewQ
      <3>2. Ready(d)' => /\ plan[d] # None /\ plan[d].fp # None /\ plan[d].fp \in seen'[d]
                         /\ tx[d].save \in {None, plan[d]}
                         /\ tx[d].save = None => Live(plan[d])'
        BY Zenon, <1>4, <2>3, <3>1 DEF PreviewAt
      <3>3. pc[d] = "savePlan" => plan[d].fp # None /\ plan[d].fp \in seen'[d]
        BY Zenon, <3>1 DEF PreviewAt
      <3> QED BY Zenon, <1>4, <2>2, <3>2, <3>3 DEF PreviewAt, Live
    <2>5. IsOk(reply[d]) \/ IsOk(resp[d]) => plan[d] # None /\ plan[d].fp \in seen'[d] /\ Live(plan[d])'
      BY Zenon, <2>1, <2>3 DEF PreviewQ
    <2> QED BY Zenon, <2>4, <2>5 DEF PreviewQ, IsOk, Live
  <1> QED BY Zenon, <1>2, <1>5, <1>6, <1>7 DEF CallQ

(* A step of one call that changes nothing another call relies on. *)
OthersSame(c) ==
    \A d \in Calls \ {c} :
        /\ pc'[d] = pc[d] /\ req'[d] = req[d] /\ plan'[d] = plan[d] /\ dec'[d] = dec[d] /\ found'[d] = found[d]
        /\ tx'[d] = tx[d] /\ reply'[d] = reply[d] /\ resp'[d] = resp[d] /\ seen'[d] = seen[d]

Still == UNCHANGED <<policy, now, plans, idem, effects>>

LEMMA StepQ ==
    ASSUME IInv, QInv, NEW c \in Calls, Still, OthersSame(c), CallQ(c)',
           pc[c] \in EndedLabels => req'[c] = req[c] /\ seen'[c] = seen[c]
    PROVE  QInv'
  <1>0. now \in Nat /\ now' = now /\ plans' = plans
    BY TimeAssumption DEF IInv, TypeOK, Still
  <1>1. ASSUME NEW d \in Calls, d # c PROVE CallQ(d)'
    <2>1. CallQ(d)
      BY Zenon DEF QInv
    <2>2. InTx(d) => policy' \in seen'[d]
      BY Zenon, <1>1, <2>1 DEF CallQ, Stored, OthersSame, Still
    <2>3. \A p \in PlanType : Live(p) => Live(p)'
      BY Zenon, <1>0 DEF Live
    <2>4. \A k \in Keys : idem[k] # None => idem'[k] = idem[k]
      BY Zenon DEF Still
    <2>5. /\ pc'[d] = pc[d] /\ req'[d] = req[d] /\ plan'[d] = plan[d] /\ dec'[d] = dec[d] /\ found'[d] = found[d]
          /\ tx'[d] = tx[d] /\ reply'[d] = reply[d] /\ resp'[d] = resp[d] /\ seen'[d] = seen[d]
      BY Zenon, <1>1 DEF OthersSame
    <2>6. now <= now'
      BY <1>0
    <2> QED BY Zenon, <1>0, <2>1, <2>2, <2>3, <2>4, <2>5, <2>6, OtherQ
  <1>2. EffectsKept'
    <2>1. EffectsKept /\ effects' = effects
      BY Zenon DEF QInv, Still
    <2>2. \A e \in effects : e.call \in Calls /\ pc[e.call] \in EndedLabels
      BY Zenon DEF IInv, EffectEnded, TypeOK, EffectType, Calls
    <2>3. \A e \in effects : req'[e.call] = req[e.call] /\ seen'[e.call] = seen[e.call]
      BY Zenon, <2>2 DEF OthersSame
    <2> QED BY Zenon, <2>1, <2>3 DEF EffectsKept, PlanFidelity
  <1>3. PlansBound'
    BY Zenon, <1>0 DEF QInv, PlansBound
  <1> QED BY Zenon, <1>1, <1>2, <1>3 DEF QInv

(* While a call works it has no answer, and its transaction is its own. *)
LEMMA WorkingFacts ==
    ASSUME IInv, QInv, NEW c \in Calls, pc[c] \in Working \cup {"idle"}
    PROVE  /\ TypeOK /\ LocalsSet(c) /\ Writes(c) /\ CallQ(c)
           /\ reply[c] = None /\ resp[c] = None
           /\ tx[c] \in TxType /\ tx[c].orphan = "no" /\ pc[c] \notin EndedLabels
  <1>1. TypeOK /\ LocalsSet(c) /\ Writes(c) /\ CallQ(c)
    BY Zenon DEF IInv, CallInv, QInv
  <1>2. pc[c] \notin EndedLabels /\ pc[c] \notin {"reply", "rollback", "txAbort", "done"}
    BY Zenon DEF Working, PreTxLabels, BeginLabels, TxLabels, EndedLabels
  <1>3. reply[c] = None /\ resp[c] = None
    BY Zenon, <1>1, <1>2 DEF CallQ, Answers
  <1>4. tx[c].orphan = "no"
    BY Zenon, <1>1, <1>2 DEF Writes
  <1> QED BY Zenon, <1>1, <1>2, <1>3, <1>4 DEF TypeOK

(* A call goes on. *)
LEMMA AdvanceQ ==
    ASSUME IInv, QInv, NEW c \in Calls, pc[c] \in Working, Still, OthersSame(c),
           pc'[c] \in Working \cup {"txCommit"},
           req'[c] = req[c], reply'[c] = reply[c], resp'[c] = resp[c], tx'[c].orphan = "no",
           pc'[c] \in TxLabels \cup EndLabels => policy \in seen'[c],
           \A p \in tx'[c].dels : p.exp <= now,
           tx'[c].save # None => tx'[c].save.fp # None,
           c \in Executes => ExecuteAt(c)', c \in Previews => PreviewAt(c)'
    PROVE  QInv'
  <1>1. /\ reply'[c] = None /\ resp'[c] = None /\ pc[c] \notin EndedLabels /\ CallQ(c)
    BY Zenon, WorkingFacts
  <1>2. Answers(c)'
    BY Zenon, <1>1 DEF Answers, IsOk
  <1>3. Stored(c)'
    BY Zenon DEF Stored, InTx, Still
  <1>4. ASSUME c \in Executes PROVE ExecuteQ(c)'
    <2>1. req[c] # None /\ req[c].plan # None => Live(req[c].plan)
      BY Zenon, <1>1, <1>4 DEF CallQ, ExecuteQ
    <2> QED BY Zenon, <1>1, <1>4, <2>1 DEF ExecuteQ, Explained, IsOk, Live, Still
  <1>5. c \in Previews => PreviewQ(c)'
    BY Zenon, <1>1 DEF PreviewQ, IsOk
  <1>6. CallQ(c)'
    BY Zenon, <1>2, <1>3, <1>4, <1>5 DEF CallQ
  <1> QED BY Zenon, <1>1, <1>6, StepQ

(* A call ends without having committed. *)
LEMMA EndQ ==
    ASSUME IInv, QInv, NEW c \in Calls, Still, OthersSame(c),
           pc'[c] \in EndedLabels \cup {"rollback", "txAbort"},
           req'[c] = req[c], plan'[c] = plan[c], dec'[c] = dec[c], found'[c] = found[c], seen'[c] = seen[c],
           InTx(c)' => InTx(c),
           tx'[c].orphan = "commit" => Ready(c),
           \/ tx'[c].save = None /\ tx'[c].dels = {} /\ tx'[c].orphan = "no"
           \/ tx'[c].save = tx[c].save /\ tx'[c].dels = tx[c].dels,
           Answers(c)',
           \/ reply'[c] = None \/ reply'[c] = reply[c]
           \/ reply'[c].kind # "ok" /\ (c \in Executes => Explained(c, reply'[c])),
           resp'[c] \in {resp[c], reply[c]}
    PROVE  QInv'
  <1>1. CallQ(c)
    BY Zenon DEF QInv
  <1>2. Stored(c)'
    BY Zenon, <1>1 DEF CallQ, Stored, Still
  <1>3. IsOk(reply'[c]) \/ IsOk(resp'[c]) => IsOk(reply[c]) \/ IsOk(resp[c])
    BY Zenon DEF IsOk
  <1>4. pc'[c] \notin {"impact", "txIntent", "txImpact", "replayRead", "txCommit", "txAudit", "savePlan"}
                        \cup DecLabels \cup FoundLabels
    BY Zenon DEF EndedLabels, DecLabels, FoundLabels
  <1>5. Ready(c)' => Ready(c) /\ tx'[c].save = tx[c].save
    BY Zenon, <1>4 DEF Ready
  <1>6. ASSUME c \in Executes PROVE ExecuteQ(c)'
    <2>1. ExecuteQ(c)
      BY Zenon, <1>1, <1>6 DEF CallQ
    <2>2. Decided(c) => Decided(c)'
      BY Zenon DEF Decided, Bound
    <2>3. ExecuteAt(c)'
      <3>1. found[c] = None /\ Ready(c) => Decided(c)
        BY Zenon, <2>1 DEF ExecuteQ, ExecuteAt
      <3> QED BY Zenon, <1>4, <1>5, <2>2, <3>1 DEF ExecuteAt
    <2>4. \A a : Explained(c, a) => Explained(c, a)'
      BY Zenon DEF Explained, Still
    <2>5. Explained(c, None)
      BY Zenon DEF Explained
    <2>6. Explained(c, reply[c])' /\ Explained(c, resp[c])'
      <3>1. Explained(c, reply[c]) /\ Explained(c, resp[c])
        BY Zenon, <2>1 DEF ExecuteQ
      <3>2. Explained(c, reply'[c]) /\ Explained(c, resp'[c])
        BY Zenon, <1>6, <2>5, <3>1
      <3> QED BY Zenon, <3>2 DEF Explained, Still
    <2>7. found'[c] # None /\ (IsOk(reply'[c]) \/ IsOk(resp'[c])) => found'[c].fp \in seen'[c]
      BY Zenon, <1>3, <2>1 DEF ExecuteQ
    <2>8. req'[c] # None /\ req'[c].plan # None => Live(req[c].plan)'
      BY Zenon, <2>1 DEF ExecuteQ, Live, Still
    <2> QED BY Zenon, <2>3, <2>6, <2>7, <2>8 DEF ExecuteQ, IsOk, Live
  <1>7. ASSUME c \in Previews PROVE PreviewQ(c)'
    <2>1. PreviewQ(c)
      BY Zenon, <1>1, <1>7 DEF CallQ
    <2>2. PreviewAt(c)'
      <3>1. Ready(c) => /\ plan[c] # None /\ plan[c].fp # None /\ plan[c].fp \in seen[c]
                        /\ tx[c].save \in {None, plan[c]}
                        /\ tx[c].save = None => Live(plan[c])
        BY Zenon, <2>1 DEF PreviewQ, PreviewAt
      <3>2. Live(plan[c]) => Live(plan[c])'
        BY Zenon DEF Live, Still
      <3> QED BY Zenon, <1>4, <1>5, <3>1, <3>2 DEF PreviewAt
    <2>3. IsOk(reply'[c]) \/ IsOk(resp'[c]) => plan'[c] # None /\ plan'[c].fp \in seen'[c] /\ Live(plan[c])'
      BY Zenon, <1>3, <2>1 DEF PreviewQ, Live, Still
    <2> QED BY Zenon, <2>2, <2>3 DEF PreviewQ, IsOk, Live
  <1>8. CallQ(c)'
    BY Zenon, <1>2, <1>6, <1>7 DEF CallQ
  <1> QED BY Zenon, <1>8, StepQ

(* A call is turned away, before its transaction or inside it. *)
LEMMA RejectQ ==
    ASSUME IInv, QInv, NEW c \in Calls, NEW code \in Codes, pc[c] \in Working, Still,
           UNCHANGED <<local, tx, resp>>,
           \/ Reject(c, code) /\ pc[c] \notin TxLabels /\ seen' = seen
           \/ TxReject(c, code) /\ ((pc[c] \in TxLabels /\ seen' = seen) \/ Begin(c)),
           c \in Executes => Explained(c, Answer("rejected", code, None))
    PROVE  QInv'
  <1>0. /\ TypeOK /\ reply[c] = None /\ resp[c] = None /\ tx[c].orphan = "no" /\ pc[c] \notin EndedLabels
        /\ CallQ(c)
    BY Zenon, WorkingFacts
  <1> DEFINE a == Answer("rejected", code, None)
  <1>1. a.kind = "rejected" /\ a.code = code /\ a # None
    BY NoneAssumption DEF Answer, AnswerType
  <1>2. reply' = [reply EXCEPT ![c] = a] /\ \E l \in {"reply", "rollback", "txAbort"} : pc' = [pc EXCEPT ![c] = l]
    BY Zenon DEF Reject, TxReject, Goto
  <1> HIDE DEF a
  <1>3. reply'[c] = a /\ pc'[c] \in {"reply", "rollback", "txAbort"}
    BY Zenon, <1>0, <1>2 DEF TypeOK
  <1>4. \A d \in Calls \ {c} : reply'[d] = reply[d] /\ pc'[d] = pc[d] /\ seen'[d] = seen[d]
    BY Zenon, <1>0, <1>2 DEF TypeOK, Begin
  <1>5. OthersSame(c)
    BY Zenon, <1>4 DEF OthersSame, local
  <1>6. Answers(c)'
    BY Zenon, <1>0, <1>1, <1>3 DEF Answers, IsOk
  <1>7. pc'[c] \notin {"reply"} => policy \in seen'[c]
    <2>1. CASE Reject(c, code)
      BY Zenon, <1>0, <2>1 DEF Reject, Goto, TypeOK
    <2>2. CASE pc[c] \in TxLabels /\ seen' = seen
      BY Zenon, <1>0, <2>2 DEF CallQ, Stored, InTx
    <2>3. CASE Begin(c)
      BY Zenon, <1>0, <2>3 DEF Begin, TypeOK
    <2> QED BY Zenon, <2>1, <2>2, <2>3
  <1>8. Stored(c)'
    <2>1. InTx(c)' => policy \in seen'[c]
      BY Zenon, <1>0, <1>3, <1>7 DEF InTx, TxLabels, EndLabels
    <2> QED BY Zenon, <1>0, <2>1 DEF CallQ, Stored, Still
  <1>9. pc'[c] \notin {"impact", "txIntent", "txImpact", "replayRead", "txCommit", "txAudit", "savePlan"}
                        \cup DecLabels \cup FoundLabels /\ ~Ready(c)'
    BY Zenon, <1>0, <1>3 DEF EndedLabels, DecLabels, FoundLabels, Ready
  <1>10. ~IsOk(reply'[c]) /\ ~IsOk(resp'[c])
    BY Zenon, <1>0, <1>1, <1>3 DEF IsOk
  <1>11. ASSUME c \in Executes PROVE ExecuteQ(c)'
    <2>1. ExecuteAt(c)'
      BY Zenon, <1>9 DEF ExecuteAt
    <2>2. Explained(c, reply[c])'
      BY Zenon, <1>3, <1>11 DEF Explained, local, Still, a
    <2>3. Explained(c, resp[c])'
      BY Zenon, <1>0 DEF Explained
    <2>4. req'[c] # None /\ req'[c].plan # None => Live(req[c].plan)'
      BY Zenon, <1>0, <1>11 DEF CallQ, ExecuteQ, Live, Still, local
    <2> QED BY Zenon, <1>10, <2>1, <2>2, <2>3, <2>4 DEF ExecuteQ, IsOk, Live
  <1>12. c \in Previews => PreviewQ(c)'
    BY Zenon, <1>9, <1>10 DEF PreviewQ, PreviewAt, IsOk
  <1>13. CallQ(c)'
    BY Zenon, <1>6, <1>8, <1>11, <1>12 DEF CallQ
  <1> QED BY Zenon, <1>0, <1>5, <1>13, StepQ

-----------------------------------------------------------------------------
(* The codes of the checks need no more explanation than the check. *)
Plain(code) == code \in Codes \ {"idempotency_conflict", "plan_not_found", "idempotency_in_progress"}

LEMMA PlainExplained ==
    ASSUME NEW c, NEW code, Plain(code) PROVE Explained(c, Answer("rejected", code, None))
  <1>1. Answer("rejected", code, None).code = code
    BY Zenon DEF Answer
  <1> QED BY Zenon, <1>1 DEF Explained, Plain

LEMMA PlainCodes ==
    /\ Plain("internal") /\ Plain("plan_stale") /\ Plain(IntentCode) /\ Plain(PreviewCode)
    /\ \A i, p : Plain(ImpactCode(i, p)) /\ Plain(ExecuteCode(i, p))
  <1>1. Plain("internal") /\ Plain("plan_stale") /\ Plain(IntentCode)
    BY Zenon DEF Plain, Codes, IntentCode
  <1>2. Plain(PreviewCode)
    BY Zenon, <1>1 DEF Plain, Codes, PreviewCode
  <1>3. ASSUME NEW i, NEW p PROVE Plain(ImpactCode(i, p))
    BY Zenon DEF Plain, Codes, ImpactCode
  <1>4. ASSUME NEW i, NEW p PROVE Plain(ExecuteCode(i, p))
    BY Zenon DEF Plain, Codes, ExecuteCode
  <1> QED BY Zenon, <1>1, <1>2, <1>3, <1>4

(* A check before the transaction that fails with a plain code. *)
LEMMA FailsQ ==
    ASSUME IInv, QInv, NEW c \in Calls, NEW code, NEW l, Proceed(c, code, l), code # "ok", Plain(code),
           pc[c] \in PreTxLabels \cup BeginLabels, Still, UNCHANGED <<local, tx, resp, seen>>
    PROVE  QInv'
  <1>1. Reject(c, code) /\ code \in Codes
    BY Zenon DEF Proceed, Plain
  <1>2. pc[c] \in Working /\ pc[c] \notin TxLabels
    BY Zenon DEF Working, PreTxLabels, BeginLabels, TxLabels
  <1> QED BY Zenon, <1>1, <1>2, PlainExplained, RejectQ

(* One inside it. *)
LEMMA TxFailsQ ==
    ASSUME IInv, QInv, NEW c \in Calls, NEW code, NEW l, TxProceed(c, code, l), code # "ok", Plain(code),
           pc[c] \in Working, Still, UNCHANGED <<local, tx, resp>>,
           (pc[c] \in TxLabels /\ seen' = seen) \/ Begin(c)
    PROVE  QInv'
  <1>1. TxReject(c, code) /\ code \in Codes
    BY Zenon DEF TxProceed, Plain
  <1> QED BY Zenon, <1>1, PlainExplained, RejectQ

(* A call goes on and its transaction stays as it is. *)
LEMMA GoesOnQ ==
    ASSUME IInv, QInv, NEW c \in Calls, NEW l, pc[c] \in Working, l \in Working \cup {"txCommit"},
           pc' = [pc EXCEPT ![c] = l], Still, UNCHANGED <<req, tx, reply, resp>>,
           \A d \in Calls \ {c} : plan'[d] = plan[d] /\ dec'[d] = dec[d] /\ found'[d] = found[d],
           \/ seen' = seen /\ (l \in TxLabels \cup EndLabels => pc[c] \in TxLabels)
           \/ Begin(c),
           c \in Executes => ExecuteAt(c)', c \in Previews => PreviewAt(c)'
    PROVE  QInv'
  <1>0. TypeOK /\ CallQ(c) /\ tx[c].orphan = "no" /\ tx[c] \in TxType
    BY Zenon, WorkingFacts
  <1>1. pc'[c] = l /\ \A d \in Calls \ {c} : pc'[d] = pc[d] /\ seen'[d] = seen[d]
    BY Zenon, <1>0 DEF TypeOK, Begin
  <1>2. OthersSame(c)
    BY Zenon, <1>1 DEF OthersSame
  <1>3. l \in TxLabels \cup EndLabels => policy \in seen'[c]
    <2>1. CASE seen' = seen /\ (l \in TxLabels \cup EndLabels => pc[c] \in TxLabels)
      BY Zenon, <1>0, <2>1 DEF CallQ, Stored, InTx
    <2>2. CASE Begin(c)
      BY Zenon, <1>0, <2>2 DEF Begin, TypeOK
    <2> QED BY Zenon, <2>1, <2>2
  <1>4. (\A p \in tx'[c].dels : p.exp <= now) /\ (tx'[c].save # None => tx'[c].save.fp # None)
    BY Zenon, <1>0 DEF CallQ, Stored
  <1> QED BY Zenon, <1>0, <1>1, <1>2, <1>3, <1>4, AdvanceQ

-----------------------------------------------------------------------------
(* Preview. *)

LEMMA PreviewStartQ == ASSUME IInv, QInv, NEW c \in Previews, PreviewStart(c) PROVE QInv'
  <1>0. c \in Calls /\ c \notin Executes /\ pc[c] = "idle"
    BY Zenon, CallAssumption DEF PreviewStart, Calls
  <1>1. /\ TypeOK /\ CallQ(c) /\ reply[c] = None /\ resp[c] = None /\ tx[c].orphan = "no"
        /\ pc[c] \notin EndedLabels
    BY Zenon, <1>0, WorkingFacts
  <1>2. Still /\ UNCHANGED <<plan, dec, found, tx, resp, seen>>
    BY Zenon DEF PreviewStart, tables, Still
  <1>3. \A d \in Calls \ {c} : req'[d] = req[d]
    BY Zenon, <1>0, <1>1 DEF PreviewStart, TypeOK
  <1>4. /\ pc'[c] \in {"plan", "reply"} /\ (reply'[c] # None => pc'[c] = "reply" /\ reply'[c].kind = "rejected")
        /\ \A d \in Calls \ {c} : pc'[d] = pc[d] /\ reply'[d] = reply[d]
    BY <1>0, <1>1 DEF PreviewStart, Proceed, Reject, Goto, Answer, TypeOK
  <1>5. OthersSame(c)
    BY Zenon, <1>2, <1>3, <1>4 DEF OthersSame
  <1>6. Answers(c)' /\ ~IsOk(reply'[c]) /\ ~IsOk(resp'[c])
    BY Zenon, <1>1, <1>2, <1>4 DEF Answers, IsOk
  <1>7. Stored(c)'
    BY Zenon, <1>1, <1>2, <1>4 DEF CallQ, Stored, InTx, TxLabels, EndLabels, Still
  <1>8. PreviewQ(c)'
    BY Zenon, <1>1, <1>2, <1>4, <1>6 DEF PreviewQ, PreviewAt, Ready, IsOk
  <1>9. CallQ(c)'
    BY Zenon, <1>0, <1>6, <1>7, <1>8 DEF CallQ
  <1> QED BY Zenon, <1>0, <1>1, <1>2, <1>5, <1>9, StepQ

(* The facts of a Preview that goes on. *)
LEMMA PreviewGoesOn ==
    ASSUME IInv, QInv, NEW c \in Previews, NEW l, pc' = [pc EXCEPT ![c] = l], tx' = tx,
           pc[c] \in Working, l \in {"planImpact", "saveIntent", "saveImpact"}
    PROVE  c \in Calls /\ c \notin Executes /\ PreviewAt(c)'
  <1>1. c \in Calls /\ c \notin Executes
    BY Zenon, CallAssumption DEF Calls
  <1>2. TypeOK /\ tx[c].orphan = "no"
    BY Zenon, <1>1, WorkingFacts
  <1>3. pc'[c] = l
    BY Zenon, <1>1, <1>2 DEF TypeOK
  <1> QED BY Zenon, <1>1, <1>2, <1>3 DEF PreviewAt, Ready

LEMMA PreviewPlanQ == ASSUME IInv, QInv, NEW c \in Previews, PreviewPlan(c) PROVE QInv'
  <1>1. /\ pc[c] = "plan" /\ pc' = [pc EXCEPT ![c] = "planImpact"]
        /\ Still /\ UNCHANGED <<req, dec, found, tx, reply, resp, seen>>
    BY Zenon DEF PreviewPlan, Goto, tables, Still
  <1>2. pc[c] \in Working /\ "planImpact" \in Working /\ "planImpact" \notin TxLabels \cup EndLabels
    BY Zenon, <1>1 DEF Working, PreTxLabels, TxLabels, EndLabels
  <1>3. c \in Calls /\ c \notin Executes /\ PreviewAt(c)'
    BY Zenon, <1>1, <1>2, PreviewGoesOn
  <1>4. \A d \in Calls \ {c} : plan'[d] = plan[d]
    BY Zenon, <1>3 DEF PreviewPlan, IInv, TypeOK
  <1> QED BY Zenon, <1>1, <1>2, <1>3, <1>4, GoesOnQ

LEMMA PreviewImpactQ == ASSUME IInv, QInv, NEW c \in Previews, PreviewImpact(c) PROVE QInv'
  <1>0. c \in Calls
    BY Zenon DEF Calls
  <1> DEFINE code == ImpactCode(req[c].input, None)
  <1>1. /\ pc[c] = "planImpact" /\ Proceed(c, code, "saveIntent")
        /\ Still /\ UNCHANGED <<local, tx, resp, seen>>
    BY Zenon DEF PreviewImpact, tables, Still
  <1>2. Plain(code)
    BY Zenon, PlainCodes
  <1> HIDE DEF code
  <1>3. pc[c] \in Working /\ pc[c] \in PreTxLabels /\ "saveIntent" \in Working /\ "saveIntent" \notin TxLabels \cup EndLabels
    BY Zenon, <1>1 DEF Working, PreTxLabels, BeginLabels, TxLabels, EndLabels
  <1>4. CASE code = "ok"
    <2>1. pc' = [pc EXCEPT ![c] = "saveIntent"] /\ reply' = reply
      BY Zenon, <1>1, <1>4 DEF Proceed, Goto
    <2>2. c \notin Executes /\ PreviewAt(c)'
      BY Zenon, <1>1, <1>3, <2>1, PreviewGoesOn
    <2>3. UNCHANGED <<req, plan, dec, found>>
      BY Zenon, <1>1 DEF local
    <2> QED BY Zenon, <1>0, <1>1, <1>3, <2>1, <2>2, <2>3, GoesOnQ
  <1>5. CASE code # "ok"
    BY Zenon, <1>0, <1>1, <1>2, <1>3, <1>5, FailsQ
  <1> QED BY Zenon, <1>4, <1>5

LEMMA PreviewTxIntentQ == ASSUME IInv, QInv, NEW c \in Previews, PreviewTxIntent(c) PROVE QInv'
  <1>0. c \in Calls
    BY Zenon DEF Calls
  <1>1. /\ pc[c] = "saveIntent" /\ TxProceed(c, IntentCode, "saveImpact") /\ Begin(c)
        /\ Still /\ UNCHANGED <<local, tx, resp>>
    BY Zenon DEF PreviewTxIntent, tables, Still
  <1>3. pc[c] \in Working /\ "saveImpact" \in Working
    BY Zenon, <1>1 DEF Working, BeginLabels, TxLabels
  <1>4. CASE IntentCode = "ok"
    <2>1. pc' = [pc EXCEPT ![c] = "saveImpact"] /\ reply' = reply
      BY Zenon, <1>1, <1>4 DEF TxProceed, Goto
    <2>2. c \notin Executes /\ PreviewAt(c)'
      BY Zenon, <1>1, <1>3, <2>1, PreviewGoesOn
    <2>3. UNCHANGED <<req, plan, dec, found>>
      BY Zenon, <1>1 DEF local
    <2> QED BY Zenon, <1>0, <1>1, <1>3, <2>1, <2>2, <2>3, GoesOnQ
  <1>5. CASE IntentCode # "ok"
    BY Zenon, <1>0, <1>1, <1>3, <1>5, PlainCodes, TxFailsQ
  <1> QED BY Zenon, <1>4, <1>5

LEMMA PreviewTxImpactQ == ASSUME IInv, QInv, NEW c \in Previews, PreviewTxImpact(c) PROVE QInv'
  <1>0. c \in Calls /\ c \notin Executes
    BY Zenon, CallAssumption DEF Calls
  <1> DEFINE code == ImpactCode(req[c].input, None)
  <1>1. /\ pc[c] = "saveImpact" /\ TxProceed(c, code, "savePlan")
        /\ plan' = (IF code = "ok" THEN [plan EXCEPT ![c].fp = policy, ![c].exp = now + PlanTTL] ELSE plan)
        /\ Still /\ UNCHANGED <<req, dec, found, tx, resp, seen>>
    BY Zenon DEF PreviewTxImpact, tables, Still
  <1>2. Plain(code) /\ (code = "ok" => policy # Deny)
    BY Zenon, PlainCodes DEF ImpactCode
  <1> HIDE DEF code
  <1>3. pc[c] \in Working /\ pc[c] \in TxLabels /\ "savePlan" \in Working
    BY Zenon, <1>1 DEF Working, TxLabels
  <1>4. CASE code = "ok"
    <2>0. TypeOK /\ LocalsSet(c) /\ tx[c].orphan = "no" /\ CallQ(c)
      BY Zenon, <1>0, <1>3, WorkingFacts
    <2>1. pc' = [pc EXCEPT ![c] = "savePlan"] /\ reply' = reply
      BY Zenon, <1>1, <1>4 DEF TxProceed, Goto
    <2>2. plan[c] \in PlanType
      BY Zenon, <1>0, <1>1, <2>0 DEF TypeOK, LocalsSet, PlanLabels
    <2>3. plan'[c].fp = policy /\ plan'[c].exp = now + PlanTTL /\ \A d \in Calls \ {c} : plan'[d] = plan[d]
      BY Zenon, <1>0, <1>1, <1>4, <2>0, <2>2 DEF TypeOK, PlanType
    <2>4. policy # None /\ policy \in seen[c]
      <3>1. policy # None
        BY Zenon, <1>2, <1>4, <2>0, CallAssumption DEF TypeOK
      <3>2. policy \in seen[c]
        BY Zenon, <1>3, <2>0 DEF CallQ, Stored, InTx
      <3> QED BY Zenon, <3>1, <3>2
    <2>5. now + PlanTTL <= now + PlanTTL /\ now' = now
      BY <1>1, <2>0, TimeAssumption DEF TypeOK, Still
    <2>6. pc'[c] = "savePlan" /\ ~Ready(c)'
      BY Zenon, <1>0, <1>1, <2>0, <2>1 DEF TypeOK, Ready
    <2>7. PreviewAt(c)'
      BY Zenon, <1>1, <2>3, <2>4, <2>5, <2>6 DEF PreviewAt
    <2> QED BY Zenon, <1>0, <1>1, <1>3, <2>1, <2>3, <2>7, GoesOnQ
  <1>5. CASE code # "ok"
    <2>1. UNCHANGED local
      BY Zenon, <1>1, <1>5 DEF local
    <2> QED BY Zenon, <1>0, <1>1, <1>2, <1>3, <1>5, <2>1, TxFailsQ
  <1> QED BY Zenon, <1>4, <1>5

LEMMA PreviewSaveQ == ASSUME IInv, QInv, NEW c \in Previews, PreviewSave(c) PROVE QInv'
  <1>0. c \in Calls /\ c \notin Executes
    BY Zenon, CallAssumption DEF Calls
  <1>1. /\ pc[c] = "savePlan" /\ pc' = [pc EXCEPT ![c] = "txAudit"]
        /\ Still /\ UNCHANGED <<req, plan, dec, found, reply, resp, seen>>
    BY Zenon DEF PreviewSave, Goto, tables, Still, local
  <1>2. pc[c] \in Working /\ pc[c] \in TxLabels /\ "txAudit" \in Working
    BY Zenon, <1>1 DEF Working, TxLabels
  <1>3. TypeOK /\ LocalsSet(c) /\ tx[c].orphan = "no" /\ CallQ(c) /\ tx[c] \in TxType
    BY Zenon, <1>0, <1>2, WorkingFacts
  <1>4. plan[c] \in PlanType /\ plan[c].exp \in Nat /\ now \in Nat
    BY <1>0, <1>1, <1>3, TimeAssumption DEF TypeOK, LocalsSet, PlanLabels, PlanType
  <1>5. plan[c].fp # None /\ plan[c].fp \in seen[c] /\ plan[c].exp <= now + PlanTTL
    BY Zenon, <1>1, <1>3 DEF CallQ, PreviewQ, PreviewAt
  <1>6. /\ tx'[c].dels = Expired(plan[c].exp - PlanTTL)
        /\ tx'[c].save = (IF plan[c] \in plans THEN None ELSE plan[c])
        /\ tx'[c].orphan = tx[c].orphan
        /\ \A d \in Calls \ {c} : tx'[d] = tx[d]
    BY Zenon, <1>0, <1>3 DEF PreviewSave, TypeOK, TxType
  <1>7. pc'[c] = "txAudit" /\ \A d \in Calls \ {c} : pc'[d] = pc[d]
    BY Zenon, <1>0, <1>1, <1>3 DEF TypeOK
  <1>8. \A p \in tx'[c].dels : p.exp <= now
    <2> SUFFICES ASSUME NEW p \in plans, p.exp <= plan[c].exp - PlanTTL PROVE p.exp <= now
      BY Zenon, <1>6 DEF Expired
    <2>1. p.exp \in Nat
      BY Zenon, <1>3 DEF TypeOK, PlanType
    <2> QED BY <1>4, <1>5, <2>1, TimeAssumption
  <1>9. tx'[c].save \in {None, plan[c]} /\ (tx'[c].save = None => plan[c] \in plans)
    BY Zenon, <1>4, <1>6, NoneAssumption
  <1>10. PreviewAt(c)'
    BY Zenon, <1>1, <1>4, <1>5, <1>7, <1>9, NoneAssumption DEF PreviewAt, Ready, Live, Still
  <1>11. OthersSame(c)
    BY Zenon, <1>1, <1>6, <1>7 DEF OthersSame
  <1>12. policy \in seen'[c]
    BY Zenon, <1>1, <1>2, <1>3 DEF CallQ, Stored, InTx
  <1> QED BY Zenon, <1>0, <1>1, <1>2, <1>3, <1>5, <1>6, <1>7, <1>8, <1>9, <1>10, <1>11, <1>12, AdvanceQ

-----------------------------------------------------------------------------
(* Execute. *)

(* What Execute relies on at its label, and where a move takes it. *)
LEMMA ExecuteFacts ==
    ASSUME IInv, QInv, NEW c \in Executes, pc[c] \in Working
    PROVE  /\ c \in Calls /\ c \notin Previews
           /\ TypeOK /\ LocalsSet(c) /\ CallQ(c) /\ ExecuteQ(c) /\ ExecuteAt(c)
           /\ tx[c].orphan = "no" /\ tx[c] \in TxType
           /\ req[c] \in RequestType
           /\ \A l : pc' = [pc EXCEPT ![c] = l] => pc'[c] = l
  <1>1. c \in Calls /\ c \notin Previews
    BY Zenon, CallAssumption DEF Calls
  <1>2. TypeOK /\ LocalsSet(c) /\ CallQ(c) /\ tx[c].orphan = "no" /\ tx[c] \in TxType
    BY Zenon, <1>1, WorkingFacts
  <1>3. ExecuteQ(c) /\ ExecuteAt(c)
    BY Zenon, <1>2 DEF CallQ, ExecuteQ
  <1>4. req[c] \in RequestType
    BY Zenon, <1>1, <1>2 DEF TypeOK, LocalsSet, Working, PreTxLabels, BeginLabels, TxLabels
  <1>5. \A l : pc' = [pc EXCEPT ![c] = l] => pc'[c] = l
    BY Zenon, <1>1, <1>2 DEF TypeOK
  <1> QED BY Zenon, <1>1, <1>2, <1>3, <1>4, <1>5

LEMMA ExecuteStartQ == ASSUME IInv, QInv, NEW c \in Executes, ExecuteStart(c) PROVE QInv'
  <1>0. c \in Calls /\ c \notin Previews /\ pc[c] = "idle"
    BY Zenon, CallAssumption DEF ExecuteStart, Calls
  <1>1. /\ TypeOK /\ CallQ(c) /\ reply[c] = None /\ resp[c] = None /\ tx[c].orphan = "no"
        /\ pc[c] \notin EndedLabels
    BY Zenon, <1>0, WorkingFacts
  <1>2. Still /\ UNCHANGED <<plan, dec, found, tx, resp, seen>>
    BY Zenon DEF ExecuteStart, tables, Still
  <1>3. PICK i \in Inputs, h \in Issued \cup {None}, k \in Keys \cup {None} :
            /\ req' = [req EXCEPT ![c] = [input |-> i, plan |-> h, key |-> k]]
            /\ Proceed(c, ExecuteCode(h, k), IF k = None THEN "resolve" ELSE "lookup")
    BY Zenon DEF ExecuteStart
  <1>4. req'[c].plan = h /\ \A d \in Calls \ {c} : req'[d] = req[d]
    BY Zenon, <1>0, <1>1, <1>3 DEF TypeOK
  <1>5. Plain(ExecuteCode(h, k))
    BY Zenon, PlainCodes
  <1>6. /\ pc'[c] \in {"resolve", "lookup", "reply"}
        /\ reply'[c] # None => pc'[c] = "reply" /\ reply'[c] = Answer("rejected", ExecuteCode(h, k), None)
        /\ \A d \in Calls \ {c} : pc'[d] = pc[d] /\ reply'[d] = reply[d]
    BY Zenon, <1>0, <1>1, <1>3 DEF Proceed, Reject, Goto, TypeOK
  <1>7. Answer("rejected", ExecuteCode(h, k), None).kind = "rejected"
    BY Zenon DEF Answer
  <1>8. OthersSame(c)
    BY Zenon, <1>2, <1>4, <1>6 DEF OthersSame
  <1>9. Answers(c)' /\ ~IsOk(reply'[c]) /\ ~IsOk(resp'[c])
    BY Zenon, <1>1, <1>2, <1>6, <1>7 DEF Answers, IsOk
  <1>10. Stored(c)'
    BY Zenon, <1>1, <1>2, <1>6 DEF CallQ, Stored, InTx, TxLabels, EndLabels, Still
  <1>11. h # None => Live(h)'
    <2> SUFFICES ASSUME h # None PROVE Live(h)'
      BY Zenon
    <2>1. PICK d \in Previews : resp[d] # None /\ resp[d].kind = "ok" /\ h = plan[d]
      BY Zenon DEF Issued
    <2>2. PreviewQ(d)
      BY Zenon DEF QInv, CallQ, Calls
    <2>3. Live(plan[d])
      BY Zenon, <2>1, <2>2 DEF PreviewQ, IsOk
    <2> QED BY Zenon, <1>2, <2>1, <2>3 DEF Live, Still
  <1>12. ExecuteAt(c)'
    BY Zenon, <1>1, <1>2, <1>6 DEF ExecuteAt, Ready, DecLabels, FoundLabels
  <1>13. Explained(c, reply[c])' /\ Explained(c, resp[c])'
    <2>1. Answer("rejected", ExecuteCode(h, k), None).code = ExecuteCode(h, k)
      BY Zenon DEF Answer
    <2> QED BY Zenon, <1>1, <1>2, <1>5, <1>6, <2>1 DEF Explained, Plain
  <1>14. ExecuteQ(c)'
    BY Zenon, <1>4, <1>9, <1>11, <1>12, <1>13 DEF ExecuteQ, IsOk, Live
  <1>15. CallQ(c)'
    BY Zenon, <1>0, <1>9, <1>10, <1>14 DEF CallQ
  <1> QED BY Zenon, <1>0, <1>1, <1>2, <1>8, <1>15, StepQ

LEMMA ExecuteLookupQ == ASSUME IInv, QInv, NEW c \in Executes, ExecuteLookup(c) PROVE QInv'
  <1> DEFINE l == IF idem[req[c].key] = None THEN "resolve" ELSE "replayRead"
  <1>1. /\ pc[c] = "lookup" /\ pc' = [pc EXCEPT ![c] = l]
        /\ Still /\ UNCHANGED <<req, plan, dec, found, tx, reply, resp, seen>>
    BY Zenon DEF ExecuteLookup, Goto, tables, Still, local
  <1>2. pc[c] \in Working /\ l \in Working /\ l \notin TxLabels \cup EndLabels /\ l \in {"resolve", "replayRead"}
    BY Zenon, <1>1 DEF Working, PreTxLabels, BeginLabels, TxLabels, EndLabels
  <1>3. l = "replayRead" => idem[req[c].key] # None
    BY Zenon
  <1> HIDE DEF l
  <1>4. c \in Calls /\ c \notin Previews /\ tx[c].orphan = "no" /\ pc'[c] = l
    BY Zenon, <1>1, <1>2, ExecuteFacts
  <1>5. ExecuteAt(c)'
    BY Zenon, <1>1, <1>2, <1>3, <1>4 DEF ExecuteAt, Ready, DecLabels, FoundLabels, Still
  <1> QED BY Zenon, <1>1, <1>2, <1>4, <1>5, GoesOnQ

LEMMA ExecuteResolveQ == ASSUME IInv, QInv, NEW c \in Executes, ExecuteResolve(c) PROVE QInv'
  <1> DEFINE h == req[c].plan
             code == IF h = None THEN "ok" ELSE LoadCode(h, req[c].input)
  <1>1. /\ pc[c] = "resolve" /\ Proceed(c, code, "impact")
        /\ plan' = (IF code # "ok" THEN plan
                    ELSE [plan EXCEPT ![c] = IF h = None THEN HandlerPlan(req[c].input) ELSE h])
        /\ Still /\ UNCHANGED <<req, dec, found, tx, resp, seen>>
    BY Zenon DEF ExecuteResolve, tables, Still
  <1>2. pc[c] \in Working /\ pc[c] \notin TxLabels /\ "impact" \in Working /\ "impact" \notin TxLabels \cup EndLabels
    BY Zenon, <1>1 DEF Working, PreTxLabels, TxLabels, EndLabels
  <1>3. /\ c \in Calls /\ c \notin Previews /\ TypeOK /\ tx[c].orphan = "no" /\ ExecuteQ(c)
        /\ req[c] \in RequestType
    BY Zenon, <1>2, ExecuteFacts
  <1>4. CASE code = "ok"
    <2>1. pc' = [pc EXCEPT ![c] = "impact"] /\ reply' = reply
      BY Zenon, <1>1, <1>4 DEF Proceed, Goto
    <2>2. h # None => plan'[c] = h /\ h \in plans
      BY Zenon, <1>1, <1>3, <1>4 DEF TypeOK, LoadCode
    <2>3. h # None => h.fp # None
      BY Zenon, <2>2 DEF QInv, PlansBound
    <2>4. pc'[c] = "impact" /\ \A d \in Calls \ {c} : plan'[d] = plan[d]
      BY Zenon, <1>1, <1>3, <2>1 DEF TypeOK
    <2>5. ExecuteAt(c)'
      BY Zenon, <1>1, <1>3, <2>2, <2>3, <2>4 DEF ExecuteAt, Ready, DecLabels, FoundLabels
    <2> QED BY Zenon, <1>1, <1>2, <1>3, <2>1, <2>4, <2>5, GoesOnQ
  <1>5. CASE code # "ok"
    <2>1. UNCHANGED local /\ Reject(c, code) /\ h # None /\ code \in {"plan_not_found", "plan_stale"}
      BY Zenon, <1>1, <1>5 DEF local, Proceed, LoadCode
    <2>2. code \in Codes
      BY Zenon, <2>1 DEF Codes
    <2>3. code = "plan_not_found" => h.exp <= now
      <3>1. code = "plan_not_found" => h \notin plans
        BY Zenon, <2>1 DEF LoadCode
      <3>2. req[c] # None /\ Live(h)
        BY Zenon, <1>3, <2>1, NoneAssumption DEF ExecuteQ
      <3> QED BY Zenon, <3>1, <3>2 DEF Live
    <2>4. Answer("rejected", code, None).code = code /\ req[c] # None
      BY Zenon, <1>3, NoneAssumption DEF Answer
    <2>5. Explained(c, Answer("rejected", code, None))
      <3> HIDE DEF code
      <3> QED BY Zenon, <2>1, <2>3, <2>4 DEF Explained
    <2> HIDE DEF code
    <2> QED BY Zenon, <1>1, <1>2, <1>3, <2>1, <2>2, <2>5, RejectQ
  <1> QED BY Zenon, <1>4, <1>5

LEMMA ExecuteImpactQ == ASSUME IInv, QInv, NEW c \in Executes, ExecuteImpact(c) PROVE QInv'
  <1> DEFINE authorized == ImpactCode(plan[c].input, plan[c].fp)
             code == IF authorized = "ok" /\ plan[c].input # req[c].input THEN "plan_stale" ELSE authorized
  <1>1. /\ pc[c] = "impact" /\ Proceed(c, code, "txIntent")
        /\ plan' = (IF code = "ok" THEN [plan EXCEPT ![c].fp = policy] ELSE plan)
        /\ Still /\ UNCHANGED <<req, dec, found, tx, resp, seen>>
    BY Zenon DEF ExecuteImpact, tables, Still
  <1>2. /\ pc[c] \in Working /\ pc[c] \in PreTxLabels
        /\ "txIntent" \in Working /\ "txIntent" \notin TxLabels \cup EndLabels
    BY Zenon, <1>1 DEF Working, PreTxLabels, BeginLabels, TxLabels, EndLabels
  <1>3. /\ c \in Calls /\ c \notin Previews /\ TypeOK /\ tx[c].orphan = "no" /\ ExecuteAt(c)
        /\ req[c] \in RequestType /\ LocalsSet(c)
    BY Zenon, <1>2, ExecuteFacts
  <1>4. Plain(code)
    BY Zenon, PlainCodes
  <1>5. code = "ok" => /\ plan[c].input = req[c].input /\ policy # Deny
                       /\ plan[c].fp # None => policy = plan[c].fp
    BY Zenon DEF ImpactCode
  <1> HIDE DEF code
  <1>6. CASE code = "ok"
    <2>1. pc' = [pc EXCEPT ![c] = "txIntent"] /\ reply' = reply
      BY Zenon, <1>1, <1>6 DEF Proceed, Goto
    <2>2. plan[c] \in PlanType
      BY Zenon, <1>1, <1>3 DEF TypeOK, LocalsSet, PlanLabels
    <2>3. /\ plan'[c] = [plan[c] EXCEPT !.fp = policy] /\ pc'[c] = "txIntent"
          /\ \A d \in Calls \ {c} : plan'[d] = plan[d]
      BY Zenon, <1>1, <1>3, <1>6, <2>1 DEF TypeOK
    <2>4. plan'[c].fp = policy /\ plan'[c].input = plan[c].input /\ plan'[c] \in PlanType
      BY Zenon, <1>3, <1>5, <1>6, <2>2, <2>3 DEF PlanType, TypeOK
    <2>5. policy # None
      BY Zenon, <1>3, <1>5, <1>6, CallAssumption DEF TypeOK
    <2>6. req[c].plan # None => plan'[c] = req[c].plan
      <3> SUFFICES ASSUME req[c].plan # None PROVE plan'[c] = plan[c]
        BY Zenon, <1>1, <1>3 DEF ExecuteAt
      <3>1. policy = plan[c].fp
        BY Zenon, <1>1, <1>3, <1>5, <1>6 DEF ExecuteAt
      <3> QED BY Zenon, <2>2, <2>3, <3>1 DEF PlanType
    <2>7. Bound(c)'
      BY Zenon, <1>1, <1>5, <1>6, <2>4, <2>5, <2>6, NoneAssumption DEF Bound
    <2>8. ExecuteAt(c)'
      BY Zenon, <1>1, <1>3, <2>3, <2>7 DEF ExecuteAt, Ready, DecLabels, FoundLabels
    <2> QED BY Zenon, <1>1, <1>2, <1>3, <2>1, <2>3, <2>8, GoesOnQ
  <1>7. CASE code # "ok"
    <2>1. UNCHANGED local
      BY Zenon, <1>1, <1>7 DEF local
    <2> QED BY Zenon, <1>1, <1>2, <1>3, <1>4, <1>7, <2>1, FailsQ
  <1> QED BY Zenon, <1>6, <1>7

LEMMA TxIntentQ == ASSUME IInv, QInv, NEW c \in Executes, TxIntent(c) PROVE QInv'
  <1>1. /\ pc[c] = "txIntent" /\ TxProceed(c, IntentCode, "txImpact") /\ Begin(c)
        /\ Still /\ UNCHANGED <<local, tx, resp>>
    BY Zenon DEF TxIntent, tables, Still
  <1>2. pc[c] \in Working /\ "txImpact" \in Working
    BY Zenon, <1>1 DEF Working, BeginLabels, TxLabels
  <1>3. c \in Calls /\ c \notin Previews /\ tx[c].orphan = "no" /\ ExecuteAt(c)
    BY Zenon, <1>2, ExecuteFacts
  <1>4. CASE IntentCode = "ok"
    <2>1. pc' = [pc EXCEPT ![c] = "txImpact"] /\ reply' = reply
      BY Zenon, <1>1, <1>4 DEF TxProceed, Goto
    <2>2. pc'[c] = "txImpact"
      BY Zenon, <1>2, <2>1, ExecuteFacts
    <2>3. Bound(c)'
      <3>1. Bound(c)
        BY Zenon, <1>1, <1>3 DEF ExecuteAt
      <3> QED BY Zenon, <1>1, <3>1 DEF Bound, local
    <2>4. ExecuteAt(c)'
      BY Zenon, <1>1, <1>3, <2>2, <2>3 DEF ExecuteAt, Ready, DecLabels, FoundLabels
    <2>5. UNCHANGED <<req, plan, dec, found>>
      BY Zenon, <1>1 DEF local
    <2> QED BY Zenon, <1>1, <1>2, <1>3, <2>1, <2>4, <2>5, GoesOnQ
  <1>5. CASE IntentCode # "ok"
    BY Zenon, <1>1, <1>2, <1>3, <1>5, PlainCodes, TxFailsQ
  <1> QED BY Zenon, <1>4, <1>5

LEMMA TxImpactQ == ASSUME IInv, QInv, NEW c \in Executes, TxImpact(c) PROVE QInv'
  <1> DEFINE code == ImpactCode(plan[c].input, plan[c].fp)
             l == IF req[c].key = None THEN "txRead" ELSE "txReserve"
  <1>1. /\ pc[c] = "txImpact" /\ TxProceed(c, code, l)
        /\ dec' = (IF code = "ok" THEN [dec EXCEPT ![c] = policy] ELSE dec)
        /\ Still /\ UNCHANGED <<req, plan, found, tx, resp, seen>>
    BY Zenon DEF TxImpact, tables, Still
  <1>2. pc[c] \in Working /\ pc[c] \in TxLabels /\ l \in Working /\ l \in {"txRead", "txReserve"}
    BY Zenon, <1>1 DEF Working, TxLabels
  <1>3. c \in Calls /\ c \notin Previews /\ TypeOK /\ tx[c].orphan = "no" /\ ExecuteAt(c) /\ CallQ(c)
    BY Zenon, <1>2, ExecuteFacts
  <1>4. Plain(code)
    BY Zenon, PlainCodes
  <1>5. code = "ok" => /\ ~Exceeds(policy, plan[c].input)
                       /\ plan[c].fp # None => policy = plan[c].fp
    BY Zenon DEF ImpactCode
  <1> HIDE DEF code, l
  <1>6. CASE code = "ok"
    <2>1. pc' = [pc EXCEPT ![c] = l] /\ reply' = reply
      BY Zenon, <1>1, <1>6 DEF TxProceed, Goto
    <2>2. pc'[c] = l
      BY Zenon, <1>2, <2>1, ExecuteFacts
    <2>3. dec'[c] = policy /\ \A d \in Calls \ {c} : dec'[d] = dec[d]
      BY Zenon, <1>1, <1>3, <1>6 DEF TypeOK
    <2>4. Bound(c)
      BY Zenon, <1>1, <1>3 DEF ExecuteAt
    <2>5. policy \in seen[c]
      BY Zenon, <1>2, <1>3 DEF CallQ, Stored, InTx
    <2>6. Decided(c)'
      BY Zenon, <1>1, <1>5, <1>6, <2>3, <2>4, <2>5 DEF Decided, Bound, Exceeds
    <2>7. ExecuteAt(c)'
      BY Zenon, <1>1, <1>2, <1>3, <2>2, <2>6 DEF ExecuteAt, FoundLabels
    <2> QED BY Zenon, <1>1, <1>2, <1>3, <2>1, <2>3, <2>7, GoesOnQ
  <1>7. CASE code # "ok"
    <2>1. UNCHANGED local
      BY Zenon, <1>1, <1>7 DEF local
    <2> QED BY Zenon, <1>1, <1>2, <1>3, <1>4, <1>7, <2>1, TxFailsQ
  <1> QED BY Zenon, <1>6, <1>7

(* A step of one transaction that leaves its plans alone. *)
SamePlans(c) ==
    /\ tx'[c].dels = tx[c].dels /\ tx'[c].save = tx[c].save /\ tx'[c].orphan = tx[c].orphan
    /\ \A d \in Calls \ {c} : tx'[d] = tx[d]

(* Once it has decided, Execute keeps to its decision. *)
LEMMA DecidedQ ==
    ASSUME IInv, QInv, NEW c \in Executes, NEW l, pc[c] \in DecLabels \cup {"txAudit"},
           l \in {"txRead", "txWrite", "txComplete", "txAudit", "txCommit"},
           pc' = [pc EXCEPT ![c] = l], Still, UNCHANGED <<local, reply, resp, seen>>, SamePlans(c)
    PROVE  QInv'
  <1>1. pc[c] \in Working /\ pc[c] \in TxLabels /\ l \in Working \cup {"txCommit"}
    BY Zenon DEF Working, TxLabels, DecLabels
  <1>2. /\ c \in Calls /\ c \notin Previews /\ TypeOK /\ tx[c].orphan = "no" /\ ExecuteAt(c) /\ CallQ(c)
        /\ LocalsSet(c) /\ pc'[c] = l
    BY Zenon, <1>1, ExecuteFacts
  <1>3. found[c] = None
    BY Zenon, <1>2 DEF LocalsSet, MainLabels, DecLabels
  <1>4. Decided(c)
    BY Zenon, <1>2, <1>3 DEF ExecuteAt, Ready
  <1>5. Decided(c)'
    BY Zenon, <1>4 DEF Decided, Bound, local
  <1>6. ExecuteAt(c)'
    BY Zenon, <1>2, <1>3, <1>5 DEF ExecuteAt, FoundLabels, local
  <1>7. OthersSame(c)
    <2>1. \A d \in Calls \ {c} : pc'[d] = pc[d]
      BY Zenon, <1>2 DEF TypeOK
    <2> QED BY Zenon, <2>1 DEF OthersSame, SamePlans, local
  <1>8. policy \in seen[c] /\ (\A p \in tx[c].dels : p.exp <= now) /\ (tx[c].save # None => tx[c].save.fp # None)
    BY Zenon, <1>1, <1>2 DEF CallQ, Stored, InTx
  <1>9. tx'[c].orphan = "no" /\ (\A p \in tx'[c].dels : p.exp <= now) /\ (tx'[c].save # None => tx'[c].save.fp # None)
    BY Zenon, <1>2, <1>8 DEF SamePlans
  <1>10. req'[c] = req[c] /\ reply'[c] = reply[c] /\ resp'[c] = resp[c] /\ seen'[c] = seen[c]
    BY Zenon DEF local
  <1> QED BY Zenon, <1>1, <1>2, <1>6, <1>7, <1>8, <1>9, <1>10, AdvanceQ

LEMMA TxReserveQ == ASSUME IInv, QInv, NEW c \in Executes, TxReserve(c) PROVE QInv'
  <1>1. pc[c] = "txReserve" /\ Still /\ UNCHANGED <<req, plan, dec, reply, resp, seen>>
    BY Zenon DEF TxReserve, tables, Still
  <1>2. pc[c] \in Working /\ pc[c] \in TxLabels /\ pc[c] \in DecLabels
    BY Zenon, <1>1 DEF Working, TxLabels, DecLabels
  <1>3. c \in Calls /\ c \notin Previews /\ TypeOK /\ tx[c].orphan = "no" /\ tx[c] \in TxType
    BY Zenon, <1>2, ExecuteFacts
  <1>4. CASE idem[req[c].key] = None
    <2>1. /\ tx' = [tx EXCEPT ![c].idem = Record(c, "running", None)]
          /\ pc' = [pc EXCEPT ![c] = "txRead"] /\ found' = found
      BY Zenon, <1>4 DEF TxReserve, Goto
    <2>2. SamePlans(c)
      BY Zenon, <1>3, <2>1 DEF SamePlans, TypeOK, TxType
    <2>3. UNCHANGED local
      BY Zenon, <1>1, <2>1 DEF local
    <2> QED BY Zenon, <1>1, <1>2, <2>1, <2>2, <2>3, DecidedQ
  <1>5. CASE idem[req[c].key] # None
    <2>1. /\ found' = [found EXCEPT ![c] = idem[req[c].key]]
          /\ pc' = [pc EXCEPT ![c] = "replayImpact"] /\ tx' = tx
      BY Zenon, <1>5 DEF TxReserve, Goto
    <2>2. found'[c] = idem[req[c].key] /\ \A d \in Calls \ {c} : found'[d] = found[d]
      BY Zenon, <1>3, <2>1 DEF TypeOK
    <2>3. pc'[c] = "replayImpact" /\ "replayImpact" \in Working
      BY Zenon, <1>2, <2>1, ExecuteFacts DEF Working, TxLabels
    <2>4. ExecuteAt(c)'
      BY Zenon, <1>1, <1>3, <2>1, <2>2, <2>3 DEF ExecuteAt, Ready, DecLabels, Still
    <2> QED BY Zenon, <1>1, <1>2, <1>3, <2>1, <2>2, <2>3, <2>4, GoesOnQ
  <1> QED BY Zenon, <1>4, <1>5

LEMMA HandlerReadQ == ASSUME IInv, QInv, NEW c \in Executes, HandlerRead(c) PROVE QInv'
  <1> DEFINE code == IF version = plan[c].snap THEN "ok" ELSE "plan_stale"
  <1>1. /\ pc[c] = "txRead" /\ TxProceed(c, code, "txWrite")
        /\ Still /\ UNCHANGED <<local, tx, resp, seen>>
    BY Zenon DEF HandlerRead, tables, Still
  <1>2. pc[c] \in Working /\ pc[c] \in TxLabels /\ pc[c] \in DecLabels /\ c \in Calls
    BY Zenon, <1>1 DEF Working, TxLabels, DecLabels, Calls
  <1>3. code \in {"ok", "plan_stale"}
    BY Zenon
  <1> HIDE DEF code
  <1>4. CASE code = "ok"
    <2>1. pc' = [pc EXCEPT ![c] = "txWrite"] /\ reply' = reply /\ SamePlans(c)
      BY Zenon, <1>1, <1>4 DEF TxProceed, Goto, SamePlans
    <2> QED BY Zenon, <1>1, <1>2, <2>1, DecidedQ
  <1>5. CASE code = "plan_stale"
    BY Zenon, <1>1, <1>2, <1>5, PlainCodes, TxFailsQ
  <1> QED BY Zenon, <1>3, <1>4, <1>5

LEMMA HandlerWriteQ == ASSUME IInv, QInv, NEW c \in Executes, HandlerWrite(c) PROVE QInv'
  <1>1. pc[c] = "txWrite" /\ Still /\ UNCHANGED <<local, resp, seen>>
    BY Zenon DEF HandlerWrite, tables, Still
  <1>2. pc[c] \in Working /\ pc[c] \in TxLabels /\ pc[c] \in DecLabels
    BY Zenon, <1>1 DEF Working, TxLabels, DecLabels
  <1>3. c \in Calls /\ TypeOK /\ tx[c] \in TxType
    BY Zenon, <1>2, ExecuteFacts
  <1>4. CASE version = plan[c].snap
    <2>1. /\ tx' = [tx EXCEPT ![c].wrote = TRUE] /\ reply' = reply
          /\ \E l \in {"txAudit", "txComplete"} : pc' = [pc EXCEPT ![c] = l]
      BY Zenon, <1>4 DEF HandlerWrite, Goto
    <2>2. SamePlans(c)
      BY Zenon, <1>3, <2>1 DEF SamePlans, TypeOK, TxType
    <2> QED BY Zenon, <1>1, <1>2, <2>1, <2>2, DecidedQ
  <1>5. CASE version # plan[c].snap
    <2>1. TxReject(c, "plan_stale") /\ tx' = tx
      BY Zenon, <1>5 DEF HandlerWrite
    <2>2. TxProceed(c, "plan_stale", "txAudit")
      BY Zenon, <2>1 DEF TxProceed
    <2> QED BY Zenon, <1>1, <1>2, <1>3, <2>1, <2>2, PlainCodes, TxFailsQ
  <1> QED BY Zenon, <1>4, <1>5

LEMMA TxCompleteQ == ASSUME IInv, QInv, NEW c \in Executes, TxComplete(c) PROVE QInv'
  <1>1. /\ pc[c] = "txComplete" /\ Still /\ UNCHANGED <<local, reply, resp, seen>>
        /\ tx' = [tx EXCEPT ![c].idem = Record(c, "completed", Result(c))]
        /\ pc' = [pc EXCEPT ![c] = "txAudit"]
    BY Zenon DEF TxComplete, tables, Still, Goto
  <1>2. pc[c] \in Working /\ pc[c] \in DecLabels
    BY Zenon, <1>1 DEF Working, TxLabels, DecLabels
  <1>3. c \in Calls /\ TypeOK /\ tx[c] \in TxType
    BY Zenon, <1>2, ExecuteFacts
  <1>4. SamePlans(c)
    BY Zenon, <1>1, <1>3 DEF SamePlans, TypeOK, TxType
  <1> QED BY Zenon, <1>1, <1>2, <1>4, DecidedQ

LEMMA ReplayReadQ == ASSUME IInv, QInv, NEW c \in Executes, ReplayRead(c) PROVE QInv'
  <1>1. /\ pc[c] = "replayRead" /\ Begin(c) /\ found' = [found EXCEPT ![c] = idem[req[c].key]]
        /\ TxProceed(c, IF idem[req[c].key] = None THEN "idempotency_in_progress" ELSE "ok", "replayIntent")
        /\ Still /\ UNCHANGED <<req, plan, dec, tx, resp>>
    BY Zenon DEF ReplayRead, tables, Still
  <1>2. pc[c] \in Working /\ "replayIntent" \in Working
    BY Zenon, <1>1 DEF Working, BeginLabels, TxLabels
  <1>3. c \in Calls /\ c \notin Previews /\ TypeOK /\ tx[c].orphan = "no" /\ ExecuteAt(c)
    BY Zenon, <1>2, ExecuteFacts
  <1>4. idem[req[c].key] # None
    BY Zenon, <1>1, <1>3 DEF ExecuteAt
  <1>5. pc' = [pc EXCEPT ![c] = "replayIntent"] /\ reply' = reply
    BY Zenon, <1>1, <1>4 DEF TxProceed, Goto
  <1>6. pc'[c] = "replayIntent"
    BY Zenon, <1>2, <1>5, ExecuteFacts
  <1>7. found'[c] = idem[req[c].key] /\ \A d \in Calls \ {c} : found'[d] = found[d]
    BY Zenon, <1>1, <1>3 DEF TypeOK
  <1>8. ExecuteAt(c)'
    BY Zenon, <1>1, <1>3, <1>6, <1>7 DEF ExecuteAt, Ready, DecLabels, Still
  <1> QED BY Zenon, <1>1, <1>2, <1>3, <1>5, <1>7, <1>8, GoesOnQ

LEMMA ReplayIntentQ == ASSUME IInv, QInv, NEW c \in Executes, ReplayIntent(c) PROVE QInv'
  <1>1. /\ pc[c] = "replayIntent" /\ TxProceed(c, IntentCode, "replayImpact")
        /\ Still /\ UNCHANGED <<local, tx, resp, seen>>
    BY Zenon DEF ReplayIntent, tables, Still
  <1>2. pc[c] \in Working /\ pc[c] \in TxLabels /\ "replayImpact" \in Working
    BY Zenon, <1>1 DEF Working, TxLabels
  <1>3. c \in Calls /\ c \notin Previews /\ tx[c].orphan = "no" /\ ExecuteAt(c)
    BY Zenon, <1>2, ExecuteFacts
  <1>4. CASE IntentCode = "ok"
    <2>1. pc' = [pc EXCEPT ![c] = "replayImpact"] /\ reply' = reply
      BY Zenon, <1>1, <1>4 DEF TxProceed, Goto
    <2>2. pc'[c] = "replayImpact"
      BY Zenon, <1>2, <2>1, ExecuteFacts
    <2>3. found[c] = idem[req[c].key]
      BY Zenon, <1>1, <1>3 DEF ExecuteAt, FoundLabels
    <2>4. UNCHANGED <<req, plan, dec, found>>
      BY Zenon, <1>1 DEF local
    <2>5. ExecuteAt(c)'
      BY Zenon, <1>1, <1>3, <2>2, <2>3, <2>4 DEF ExecuteAt, Ready, DecLabels, Still
    <2> QED BY Zenon, <1>1, <1>2, <1>3, <2>1, <2>4, <2>5, GoesOnQ
  <1>5. CASE IntentCode # "ok"
    BY Zenon, <1>1, <1>2, <1>3, <1>5, PlainCodes, TxFailsQ
  <1> QED BY Zenon, <1>4, <1>5

LEMMA ReplayImpactQ == ASSUME IInv, QInv, NEW c \in Executes, ReplayImpact(c) PROVE QInv'
  <1> DEFINE code == CompletedCode(req[c], found[c])
  <1>1. /\ pc[c] = "replayImpact" /\ TxProceed(c, code, "txCommit")
        /\ Still /\ UNCHANGED <<local, tx, resp, seen>>
    BY Zenon DEF ReplayImpact, tables, Still
  <1>2. pc[c] \in Working /\ pc[c] \in TxLabels
    BY Zenon, <1>1 DEF Working, TxLabels
  <1>3. /\ c \in Calls /\ c \notin Previews /\ TypeOK /\ tx[c].orphan = "no" /\ ExecuteAt(c) /\ CallQ(c)
        /\ req[c] \in RequestType /\ LocalsSet(c)
    BY Zenon, <1>2, ExecuteFacts
  <1>4. found[c] = idem[req[c].key] /\ found[c] # None /\ req[c].key \in Keys
    BY Zenon, <1>1, <1>3 DEF ExecuteAt, LocalsSet, FoundLabels, KeyLabels, RequestType
  <1>5. found[c] \in RecordType /\ found[c].fp \in Policies
    BY Zenon, <1>3, <1>4 DEF TypeOK, RecordType
  <1>6. found[c].status = "completed"
    <2>1. EvidenceAtomic
      BY Zenon DEF IInv
    <2>2. idem[req[c].key] # None
      BY Zenon, <1>4
    <2>3. PICK e \in effects :
              idem[req[c].key] = [input |-> e.input, plan |-> e.plan, fp |-> e.fp,
                                  status |-> "completed", result |-> e.result]
      BY Zenon, <1>4, <2>1, <2>2 DEF EvidenceAtomic
    <2> QED BY <1>4, <2>3
  <1>7. CASE code = "ok"
    <2>1. pc' = [pc EXCEPT ![c] = "txCommit"] /\ reply' = reply
      BY Zenon, <1>1, <1>7 DEF TxProceed, Goto
    <2>2. pc'[c] = "txCommit"
      BY Zenon, <1>2, <2>1, ExecuteFacts
    <2>3. policy = found[c].fp
      <3>1. found[c].fp # None
        BY Zenon, <1>5, CallAssumption
      <3> QED BY Zenon, <1>7, <3>1 DEF CompletedCode, ImpactCode
    <2>4. policy \in seen[c]
      BY Zenon, <1>2, <1>3 DEF CallQ, Stored, InTx
    <2>5. UNCHANGED <<req, plan, dec, found>>
      BY Zenon, <1>1 DEF local
    <2>6. ExecuteAt(c)'
      BY Zenon, <1>1, <1>3, <1>4, <2>2, <2>3, <2>4, <2>5 DEF ExecuteAt, Ready, DecLabels, FoundLabels
    <2> HIDE DEF code
    <2> QED BY Zenon, <1>1, <1>2, <1>3, <2>1, <2>5, <2>6, GoesOnQ
  <1>8. CASE code # "ok"
    <2>1. code \in Codes /\ code # "idempotency_in_progress" /\ code # "plan_not_found"
      BY Zenon, <1>6, CodeTypes DEF CompletedCode, ImpactCode
    <2>2. code = "idempotency_conflict" => found[c].input # req[c].input \/ found[c].plan # req[c].plan
      BY Zenon DEF CompletedCode, ImpactCode
    <2> HIDE DEF code
    <2>3. TxReject(c, code)
      BY Zenon, <1>1, <1>8 DEF TxProceed
    <2>4. Answer("rejected", code, None).code = code /\ req[c] # None
      BY Zenon, <1>3, NoneAssumption DEF Answer
    <2>5. Explained(c, Answer("rejected", code, None))
      BY Zenon, <1>4, <2>1, <2>2, <2>4 DEF Explained
    <2> QED BY Zenon, <1>1, <1>2, <1>3, <2>1, <2>3, <2>5, RejectQ
  <1> QED BY Zenon, <1>7, <1>8

(* The event joins the transaction. *)
LEMMA TxAuditQ == ASSUME IInv, QInv, NEW c \in Calls, TxAudit(c) PROVE QInv'
  <1>1. /\ pc[c] = "txAudit" /\ Still /\ UNCHANGED <<local, reply, resp, seen>>
        /\ tx' = [tx EXCEPT ![c].audit = TRUE] /\ pc' = [pc EXCEPT ![c] = "txCommit"]
    BY Zenon DEF TxAudit, tables, Still, Goto
  <1>2. pc[c] \in Working /\ pc[c] \in TxLabels
    BY Zenon, <1>1 DEF Working, TxLabels
  <1>3. TypeOK /\ tx[c] \in TxType /\ tx[c].orphan = "no" /\ CallQ(c)
    BY Zenon, <1>2, WorkingFacts
  <1>4. SamePlans(c)
    BY Zenon, <1>1, <1>3 DEF SamePlans, TypeOK, TxType
  <1>5. CASE c \in Executes
    BY Zenon, <1>1, <1>4, <1>5, DecidedQ
  <1>6. CASE c \in Previews
    <2>1. PreviewAt(c) /\ Ready(c) /\ c \notin Executes
      BY Zenon, <1>1, <1>3, <1>6, CallAssumption DEF CallQ, PreviewQ, Ready
    <2>2. pc'[c] = "txCommit" /\ \A d \in Calls \ {c} : pc'[d] = pc[d]
      BY Zenon, <1>1, <1>3 DEF TypeOK
    <2>3. PreviewAt(c)'
      <3>1. /\ plan[c] # None /\ plan[c].fp # None /\ plan[c].fp \in seen[c]
            /\ tx[c].save \in {None, plan[c]}
            /\ tx[c].save = None => Live(plan[c])
        BY Zenon, <2>1 DEF PreviewAt
      <3>2. Live(plan[c]) => Live(plan[c])'
        BY Zenon, <1>1 DEF Live, Still, local
      <3> QED BY Zenon, <1>1, <1>4, <2>2, <3>1, <3>2 DEF PreviewAt, SamePlans, local
    <2>4. OthersSame(c)
      BY Zenon, <1>1, <1>4, <2>2 DEF OthersSame, SamePlans, local
    <2>5. policy \in seen[c] /\ (\A p \in tx[c].dels : p.exp <= now) /\ (tx[c].save # None => tx[c].save.fp # None)
      BY Zenon, <1>2, <1>3 DEF CallQ, Stored, InTx
    <2>6. tx'[c].orphan = "no" /\ (\A p \in tx'[c].dels : p.exp <= now) /\ (tx'[c].save # None => tx'[c].save.fp # None)
      BY Zenon, <1>3, <1>4, <2>5 DEF SamePlans
    <2>7. req'[c] = req[c] /\ reply'[c] = reply[c] /\ resp'[c] = resp[c] /\ seen'[c] = seen[c]
      BY Zenon, <1>1 DEF local
    <2> QED BY Zenon, <1>1, <1>2, <2>1, <2>2, <2>3, <2>4, <2>5, <2>6, <2>7, AdvanceQ
  <1> QED BY Zenon, <1>5, <1>6 DEF Calls

(* What is known of a call that is ending. *)
LEMMA EndFacts ==
    ASSUME IInv, QInv, NEW c \in Calls
    PROVE  /\ TypeOK /\ tx[c] \in TxType /\ CallQ(c) /\ Answers(c)
           /\ tx[c].orphan # "no" => pc[c] \in EndedLabels
  BY Zenon DEF IInv, TypeOK, CallInv, Writes, QInv, CallQ

(* The error of the callback rolls back what it has written. *)
LEMMA TxAbortQ == ASSUME IInv, QInv, NEW c \in Executes, TxAbort(c) PROVE QInv'
  <1>1. /\ pc[c] = "txAbort" /\ Still /\ UNCHANGED <<local, reply, resp, seen>>
        /\ (tx' = tx \/ tx' = [tx EXCEPT ![c].idem = None]) /\ pc' = [pc EXCEPT ![c] = "rollback"]
    BY Zenon DEF TxAbort, tables, Still, Goto
  <1>2. c \in Calls /\ TypeOK /\ tx[c] \in TxType /\ Answers(c) /\ tx[c].orphan = "no"
    BY Zenon, <1>1, EndFacts DEF Calls, EndedLabels
  <1>3. pc'[c] = "rollback" /\ \A d \in Calls \ {c} : pc'[d] = pc[d]
    BY Zenon, <1>1, <1>2 DEF TypeOK, TxAbort, Goto
  <1>4. SamePlans(c)
    BY Zenon, <1>1, <1>2 DEF SamePlans, TypeOK, TxType, TxAbort
  <1>5. OthersSame(c)
    BY Zenon, <1>1, <1>3, <1>4 DEF OthersSame, SamePlans, local
  <1>6. Answers(c)'
    BY Zenon, <1>1, <1>2, <1>3 DEF Answers, IsOk
  <1>7. InTx(c)
    BY Zenon, <1>1 DEF InTx, EndLabels
  <1>8. /\ tx'[c].save = tx[c].save /\ tx'[c].dels = tx[c].dels /\ tx'[c].orphan = "no"
        /\ req'[c] = req[c] /\ plan'[c] = plan[c] /\ dec'[c] = dec[c] /\ found'[c] = found[c] /\ seen'[c] = seen[c]
        /\ reply'[c] = reply[c] /\ resp'[c] = resp[c]
    BY Zenon, <1>1, <1>2, <1>4 DEF SamePlans, local
  <1> QED BY Zenon, <1>1, <1>2, <1>3, <1>5, <1>6, <1>7, <1>8, EndQ

(* The call answers that it does not know. *)
LEMMA InDoubtQ ==
    ASSUME IInv, QInv, NEW c \in Calls, NEW o \in {"commit", "abort"},
           pc[c] \in {"txCommit", "rollback"}, o = "commit" => pc[c] = "txCommit",
           tx' = [tx EXCEPT ![c].orphan = o], reply' = [reply EXCEPT ![c] = Answer("unknown", "internal", None)],
           pc' = [pc EXCEPT ![c] = "reply"], Still, UNCHANGED <<local, resp, seen>>
    PROVE  QInv'
  <1>1. TypeOK /\ tx[c] \in TxType /\ Answers(c)
    BY Zenon, EndFacts
  <1> DEFINE a == Answer("unknown", "internal", None)
  <1>2. a # None /\ a.kind # "ok" /\ Explained(c, a)
    BY NoneAssumption DEF Answer, AnswerType, Codes, Explained
  <1>3. pc'[c] = "reply" /\ reply'[c] = a /\ \A d \in Calls \ {c} : pc'[d] = pc[d] /\ reply'[d] = reply[d]
    BY Zenon, <1>1 DEF TypeOK
  <1> HIDE DEF a
  <1>4. /\ tx'[c].save = tx[c].save /\ tx'[c].dels = tx[c].dels /\ tx'[c].orphan = o
        /\ \A d \in Calls \ {c} : tx'[d] = tx[d]
    BY Zenon, <1>1 DEF TypeOK, TxType
  <1>5. OthersSame(c)
    BY Zenon, <1>3, <1>4 DEF OthersSame, local
  <1>6. Answers(c)'
    BY Zenon, <1>1, <1>2, <1>3 DEF Answers, IsOk
  <1>7. InTx(c) /\ (o = "commit" => Ready(c))
    BY Zenon DEF InTx, EndLabels, Ready
  <1>8. /\ req'[c] = req[c] /\ plan'[c] = plan[c] /\ dec'[c] = dec[c] /\ found'[c] = found[c] /\ seen'[c] = seen[c]
        /\ resp'[c] = resp[c] /\ pc'[c] \in EndedLabels
    BY Zenon, <1>3 DEF local, EndedLabels
  <1> QED BY Zenon, <1>2, <1>3, <1>4, <1>5, <1>6, <1>7, <1>8, EndQ

LEMMA CommitInDoubtQ == ASSUME IInv, QInv, NEW c \in Calls, CommitInDoubt(c) PROVE QInv'
  <1>1. Still
    BY Zenon DEF CommitInDoubt, tables, Still
  <1> QED BY Zenon, <1>1, InDoubtQ DEF CommitInDoubt, Goto

LEMMA RollbackInDoubtQ == ASSUME IInv, QInv, NEW c \in Calls, RollbackInDoubt(c) PROVE QInv'
  <1>1. Still
    BY Zenon DEF RollbackInDoubt, tables, Still
  <1> QED BY Zenon, <1>1, InDoubtQ DEF RollbackInDoubt, Goto

LEMMA RolledBackQ == ASSUME IInv, QInv, NEW c \in Calls, RolledBack(c) PROVE QInv'
  <1>1. /\ pc[c] = "rollback" /\ Still /\ UNCHANGED <<local, reply, resp, seen>>
        /\ tx' = [tx EXCEPT ![c] = EmptyTx] /\ pc' = [pc EXCEPT ![c] = "reply"]
    BY Zenon DEF RolledBack, ReleaseLocks, tables, Still, Goto
  <1>2. TypeOK /\ Answers(c)
    BY Zenon, EndFacts
  <1>3. /\ pc'[c] = "reply" /\ tx'[c] = EmptyTx
        /\ \A d \in Calls \ {c} : pc'[d] = pc[d] /\ tx'[d] = tx[d]
    BY Zenon, <1>1, <1>2 DEF TypeOK
  <1>4. tx'[c].save = None /\ tx'[c].dels = {} /\ tx'[c].orphan = "no"
    BY <1>3 DEF EmptyTx
  <1>5. OthersSame(c)
    BY Zenon, <1>1, <1>3 DEF OthersSame, local
  <1>6. Answers(c)'
    BY Zenon, <1>1, <1>2, <1>3 DEF Answers, IsOk
  <1>7. InTx(c)
    BY Zenon, <1>1 DEF InTx, EndLabels
  <1>8. /\ req'[c] = req[c] /\ plan'[c] = plan[c] /\ dec'[c] = dec[c] /\ found'[c] = found[c] /\ seen'[c] = seen[c]
        /\ reply'[c] = reply[c] /\ resp'[c] = resp[c] /\ pc'[c] \in EndedLabels
    BY Zenon, <1>1, <1>3 DEF local, EndedLabels
  <1> QED BY Zenon, <1>1, <1>3, <1>4, <1>5, <1>6, <1>7, <1>8, EndQ

LEMMA RespondQ == ASSUME IInv, QInv, NEW c \in Calls, Respond(c) PROVE QInv'
  <1>1. /\ pc[c] = "reply" /\ Still /\ UNCHANGED <<local, tx, seen>> /\ pc' = [pc EXCEPT ![c] = "done"]
        /\ resp' = [resp EXCEPT ![c] = reply[c]] /\ reply' = [reply EXCEPT ![c] = None]
    BY Zenon DEF Respond, tables, Still, Goto
  <1>2. TypeOK /\ Answers(c)
    BY Zenon, EndFacts
  <1>3. /\ pc'[c] = "done" /\ reply'[c] = None /\ resp'[c] = reply[c]
        /\ \A d \in Calls \ {c} : pc'[d] = pc[d] /\ reply'[d] = reply[d] /\ resp'[d] = resp[d]
    BY Zenon, <1>1, <1>2 DEF TypeOK
  <1>4. OthersSame(c)
    BY Zenon, <1>1, <1>3 DEF OthersSame, local
  <1>5. Answers(c)'
    BY Zenon, <1>3 DEF Answers, IsOk
  <1>6. (InTx(c)' => InTx(c)) /\ (tx'[c].orphan = "commit" => Ready(c))
    BY Zenon, <1>1, <1>3 DEF InTx, TxLabels, EndLabels, Ready
  <1>7. /\ req'[c] = req[c] /\ plan'[c] = plan[c] /\ dec'[c] = dec[c] /\ found'[c] = found[c] /\ seen'[c] = seen[c]
        /\ tx'[c] = tx[c] /\ pc'[c] \in EndedLabels
    BY Zenon, <1>1, <1>3 DEF local, EndedLabels
  <1> QED BY Zenon, <1>1, <1>3, <1>4, <1>5, <1>6, <1>7, EndQ

LEMMA CrashQ == ASSUME IInv, QInv, NEW c \in Calls, Crash(c) PROVE QInv'
  <1>1. /\ pc[c] # "done" /\ Still /\ UNCHANGED <<local, resp, seen>> /\ pc' = [pc EXCEPT ![c] = "dead"]
        /\ reply' = [reply EXCEPT ![c] = None]
    BY Zenon DEF Crash, tables, Still, Goto
  <1>2. TypeOK /\ Answers(c) /\ tx[c] \in TxType
    BY Zenon, EndFacts
  <1>3. /\ pc'[c] = "dead" /\ reply'[c] = None /\ resp'[c] = None /\ resp[c] = None
        /\ \A d \in Calls \ {c} : pc'[d] = pc[d] /\ reply'[d] = reply[d]
    BY Zenon, <1>1, <1>2 DEF TypeOK, Answers
  <1>4. /\ tx'[c].save = tx[c].save /\ tx'[c].dels = tx[c].dels
        /\ tx'[c].orphan = "commit" => pc[c] = "txCommit" \/ tx[c].orphan = "commit"
        /\ tx'[c].orphan # "no" => pc[c] \in TxLabels \cup EndLabels \/ tx[c].orphan # "no"
        /\ \A d \in Calls \ {c} : tx'[d] = tx[d]
    BY Zenon, <1>2 DEF Crash, TypeOK, TxType
  <1>5. OthersSame(c)
    BY Zenon, <1>1, <1>3, <1>4 DEF OthersSame, local
  <1>6. Answers(c)'
    BY Zenon, <1>3 DEF Answers, IsOk
  <1>7. (InTx(c)' => InTx(c)) /\ (tx'[c].orphan = "commit" => Ready(c))
    BY Zenon, <1>3, <1>4 DEF InTx, TxLabels, EndLabels, Ready
  <1>8. /\ req'[c] = req[c] /\ plan'[c] = plan[c] /\ dec'[c] = dec[c] /\ found'[c] = found[c] /\ seen'[c] = seen[c]
        /\ pc'[c] \in EndedLabels
    BY Zenon, <1>1, <1>3 DEF local, EndedLabels
  <1> QED BY Zenon, <1>1, <1>3, <1>4, <1>5, <1>6, <1>7, <1>8, EndQ

LEMMA DependencyFailureQ == ASSUME IInv, QInv, NEW c \in Calls, DependencyFailure(c) PROVE QInv'
  <1>1. Still /\ UNCHANGED <<local, tx, resp>> /\ seen' = seen
    BY Zenon DEF DependencyFailure, tables, Still
  <1>2. "internal" \in Codes /\ Explained(c, Answer("rejected", "internal", None))
    BY Zenon, PlainCodes, PlainExplained DEF Codes
  <1>3. CASE pc[c] \in PreTxLabels \cup BeginLabels /\ Reject(c, "internal")
    <2>1. pc[c] \in Working /\ pc[c] \notin TxLabels
      BY Zenon, <1>3 DEF Working, PreTxLabels, BeginLabels, TxLabels
    <2> QED BY Zenon, <1>1, <1>2, <1>3, <2>1, RejectQ
  <1>4. CASE pc[c] \in TxLabels /\ TxReject(c, "internal")
    <2>1. pc[c] \in Working
      BY Zenon, <1>4 DEF Working
    <2> QED BY Zenon, <1>1, <1>2, <1>4, <2>1, RejectQ
  <1> QED BY Zenon, <1>3, <1>4 DEF DependencyFailure

-----------------------------------------------------------------------------
(* A step in which no call moves. *)
LEMMA FrameQ ==
    ASSUME IInv, QInv, now' \in Nat, now <= now', UNCHANGED <<pc, local, reply, resp>>,
           \A d \in Calls : tx'[d] = tx[d] \/ (tx'[d] = EmptyTx /\ pc[d] \in EndedLabels),
           \A d \in Calls : seen[d] \subseteq seen'[d] /\ (InTx(d) => policy' \in seen'[d]),
           \A p \in PlanType : Live(p) => Live(p)',
           \A k \in Keys : idem[k] # None => idem'[k] = idem[k],
           PlansBound', EffectsKept'
    PROVE  QInv'
  <1>0. now \in Nat
    BY TimeAssumption DEF IInv, TypeOK
  <1>1. ASSUME NEW d \in Calls PROVE CallQ(d)'
    <2>1. CallQ(d)
      BY Zenon DEF QInv
    <2>2. /\ pc'[d] = pc[d] /\ req'[d] = req[d] /\ plan'[d] = plan[d] /\ dec'[d] = dec[d] /\ found'[d] = found[d]
          /\ reply'[d] = reply[d] /\ resp'[d] = resp[d]
      BY Zenon DEF local
    <2> QED BY Zenon, <1>0, <2>1, <2>2, OtherQ
  <1> QED BY Zenon, <1>1 DEF QInv

(* A commit that was sent keeps the records, the plans that may still be   *)
(* executed, and the promises of the effects.                              *)
LEMMA ApplyQ ==
    ASSUME IInv, QInv, NEW c \in Calls, Ready(c), ApplyTx(c), now' = now, UNCHANGED <<local, seen>>
    PROVE  /\ \A p \in PlanType : Live(p) => Live(p)'
           /\ PlansBound' /\ EffectsKept'
  <1>1. TypeOK /\ tx[c] \in TxType /\ CallQ(c) /\ Writes(c) /\ PlansBound /\ EffectsKept
    BY Zenon, EndFacts DEF IInv, CallInv, QInv
  <1>2. Stored(c)
    BY Zenon, <1>1 DEF CallQ
  <1>3. plans' = (plans \ tx[c].dels) \cup (IF tx[c].save = None THEN {} ELSE {tx[c].save})
    BY Zenon DEF ApplyTx
  <1>4. \A p \in PlanType : Live(p) => Live(p)'
    BY Zenon, <1>2, <1>3 DEF Live, Stored
  <1>5. PlansBound'
    BY Zenon, <1>1, <1>2, <1>3 DEF PlansBound, Stored
  <1>6. ASSUME tx[c].wrote PROVE Decided(c)
    <2>1. c \in Executes
      BY Zenon, <1>6 DEF IInv, LockInv
    <2>2. Complete(c)
      BY Zenon, <1>1 DEF Writes, Ready
    <2>3. found[c] = None
      BY Zenon, <1>6, <2>1, <2>2 DEF Complete
    <2> QED BY Zenon, <1>1, <2>1, <2>3 DEF CallQ, ExecuteQ, ExecuteAt
  <1>7. \A e \in effects' : e \in effects \/ (tx[c].wrote /\ e = NewEffect(c))
    BY Zenon DEF ApplyTx, NewEffect
  <1>8. EffectsKept'
    <2>1. ASSUME NEW e \in effects'
          PROVE  /\ req[e.call].plan # None => e.plan = req[e.call].plan
                 /\ e.plan.input = req[e.call].input
                 /\ e.plan.fp = e.fp /\ ~Exceeds(e.fp, e.input) /\ e.fp \in seen[e.call]
      <3>1. CASE e \in effects
        BY Zenon, <1>1, <3>1 DEF EffectsKept, PlanFidelity
      <3>2. CASE tx[c].wrote /\ e = NewEffect(c)
        <4>1. e.call = c /\ e.input = req[c].input /\ e.plan = plan[c] /\ e.fp = dec[c]
          BY Zenon, <3>2 DEF NewEffect
        <4> QED BY Zenon, <1>6, <3>2, <4>1 DEF Decided, Bound
      <3> QED BY Zenon, <1>7, <3>1, <3>2
    <2> QED BY Zenon, <2>1 DEF EffectsKept, PlanFidelity, local
  <1> QED BY Zenon, <1>4, <1>5, <1>8

LEMMA OrphanCommitQ == ASSUME IInv, QInv, NEW c \in Calls, OrphanCommit(c) PROVE QInv'
  <1>1. /\ tx[c].orphan = "commit" /\ ApplyTx(c) /\ tx' = [tx EXCEPT ![c] = EmptyTx]
        /\ UNCHANGED <<policy, now, pc, local, reply, resp, seen>>
    BY Zenon DEF OrphanCommit, ReleaseLocks
  <1>2. TypeOK /\ Ready(c) /\ pc[c] \in EndedLabels
    BY Zenon, <1>1, EndFacts DEF Ready
  <1>3. now \in Nat
    BY <1>2, TimeAssumption DEF TypeOK
  <1>4. now' \in Nat /\ now <= now'
    BY <1>1, <1>3
  <1>5. (\A p \in PlanType : Live(p) => Live(p)') /\ PlansBound' /\ EffectsKept'
    BY Zenon, <1>1, <1>2, ApplyQ
  <1>6. \A d \in Calls : tx'[d] = tx[d] \/ (tx'[d] = EmptyTx /\ pc[d] \in EndedLabels)
    BY Zenon, <1>1, <1>2 DEF TypeOK
  <1>7. \A d \in Calls : seen[d] \subseteq seen'[d] /\ (InTx(d) => policy' \in seen'[d])
    BY Zenon, <1>1 DEF QInv, CallQ, Stored
  <1> QED BY Zenon, <1>1, <1>4, <1>5, <1>6, <1>7, RecordKept, FrameQ

LEMMA OrphanAbortQ == ASSUME IInv, QInv, NEW c \in Calls, OrphanAbort(c) PROVE QInv'
  <1>1. /\ tx[c].orphan # "no" /\ tx' = [tx EXCEPT ![c] = EmptyTx]
        /\ UNCHANGED <<policy, now, plans, idem, effects, pc, local, reply, resp, seen>>
    BY Zenon DEF OrphanAbort, ReleaseLocks, tables
  <1>2. TypeOK /\ pc[c] \in EndedLabels
    BY Zenon, <1>1, EndFacts
  <1>3. now \in Nat
    BY <1>2, TimeAssumption DEF TypeOK
  <1>4. now' \in Nat /\ now <= now'
    BY <1>1, <1>3
  <1>5. (\A p \in PlanType : Live(p) => Live(p)') /\ PlansBound'
    BY Zenon, <1>1 DEF Live, QInv, PlansBound
  <1>6. EffectsKept'
    BY Zenon, <1>1 DEF QInv, EffectsKept, PlanFidelity, local
  <1>7. \A d \in Calls : tx'[d] = tx[d] \/ (tx'[d] = EmptyTx /\ pc[d] \in EndedLabels)
    BY Zenon, <1>1, <1>2 DEF TypeOK
  <1>8. \A d \in Calls : seen[d] \subseteq seen'[d] /\ (InTx(d) => policy' \in seen'[d])
    BY Zenon, <1>1 DEF QInv, CallQ, Stored
  <1> QED BY Zenon, <1>1, <1>4, <1>5, <1>6, <1>7, <1>8, FrameQ

LEMMA CommittedQ == ASSUME IInv, QInv, NEW c \in Calls, Committed(c) PROVE QInv'
  <1> DEFINE a == Answer("ok", "ok", Success(c))
  <1>1. /\ pc[c] = "txCommit" /\ ApplyTx(c) /\ tx' = [tx EXCEPT ![c] = EmptyTx]
        /\ reply' = [reply EXCEPT ![c] = a] /\ pc' = [pc EXCEPT ![c] = "reply"]
        /\ UNCHANGED <<policy, now, local, resp, seen>>
    BY Zenon DEF Committed, ReleaseLocks, Goto
  <1>2. a.kind = "ok" /\ a.code = "ok"
    BY Zenon DEF Answer
  <1> HIDE DEF a
  <1>3. TypeOK /\ Ready(c) /\ CallQ(c) /\ Answers(c)
    BY Zenon, <1>1, EndFacts DEF Ready
  <1>4. now \in Nat
    BY <1>3, TimeAssumption DEF TypeOK
  <1>5. now' \in Nat /\ now <= now'
    BY <1>1, <1>4
  <1>6. (\A p \in PlanType : Live(p) => Live(p)') /\ PlansBound' /\ EffectsKept'
    BY Zenon, <1>1, <1>3, ApplyQ
  <1>7. \A k \in Keys : idem[k] # None => idem'[k] = idem[k]
    BY Zenon, <1>1, RecordKept
  <1>8. /\ pc'[c] = "reply" /\ reply'[c] = a /\ tx'[c] = EmptyTx
        /\ \A d \in Calls \ {c} : pc'[d] = pc[d] /\ reply'[d] = reply[d] /\ tx'[d] = tx[d]
    BY Zenon, <1>1, <1>3 DEF TypeOK
  <1>9. ASSUME NEW d \in Calls, d # c PROVE CallQ(d)'
    <2>1. CallQ(d) /\ seen[d] \subseteq seen'[d] /\ (InTx(d) => policy' \in seen'[d])
      BY Zenon, <1>1 DEF QInv, CallQ, Stored
    <2>2. /\ pc'[d] = pc[d] /\ req'[d] = req[d] /\ plan'[d] = plan[d] /\ dec'[d] = dec[d] /\ found'[d] = found[d]
          /\ reply'[d] = reply[d] /\ resp'[d] = resp[d] /\ tx'[d] = tx[d]
      BY Zenon, <1>1, <1>8, <1>9 DEF local
    <2> QED BY Zenon, <1>4, <1>5, <1>6, <1>7, <2>1, <2>2, OtherQ
  <1>10. CallQ(c)'
    <2>1. tx'[c].dels = {} /\ tx'[c].save = None /\ tx'[c].orphan = "no"
      BY <1>8 DEF EmptyTx
    <2>2. Stored(c)'
      BY Zenon, <1>8, <2>1 DEF Stored, InTx, TxLabels, EndLabels
    <2>3. resp'[c] = None
      BY Zenon, <1>1, <1>3 DEF Answers
    <2>4. Answers(c)'
      BY Zenon, <1>8, <2>3 DEF Answers, IsOk
    <2>5. ~Ready(c)'
      BY Zenon, <1>8, <2>1 DEF Ready
    <2>6. /\ req'[c] = req[c] /\ plan'[c] = plan[c] /\ found'[c] = found[c] /\ seen'[c] = seen[c]
          /\ req[c] \in RequestType \cup {None} /\ plan[c] \in PlanType \cup {None}
      BY Zenon, <1>1, <1>3 DEF local, TypeOK
    <2>7. ASSUME c \in Executes PROVE ExecuteQ(c)'
      <3>1. ExecuteQ(c) /\ ExecuteAt(c)
        BY Zenon, <1>3, <2>7 DEF CallQ, ExecuteQ
      <3>2. req'[c] # None /\ req'[c].plan # None => Live(req[c].plan)'
        <4>1. req[c] # None /\ req[c].plan # None => req[c].plan \in PlanType /\ Live(req[c].plan)
          BY Zenon, <2>6, <3>1 DEF ExecuteQ, RequestType
        <4> QED BY Zenon, <1>6, <2>6, <4>1
      <3>3. ExecuteAt(c)'
        BY Zenon, <1>8, <2>5 DEF ExecuteAt, DecLabels, FoundLabels
      <3>4. found'[c] # None => found'[c].fp \in seen'[c]
        BY Zenon, <1>1, <2>6, <3>1 DEF ExecuteAt
      <3>5. Explained(c, reply[c])' /\ Explained(c, resp[c])'
        BY Zenon, <1>2, <1>8, <2>3 DEF Explained
      <3> QED BY Zenon, <2>6, <3>2, <3>3, <3>4, <3>5 DEF ExecuteQ, Live
    <2>8. ASSUME c \in Previews PROVE PreviewQ(c)'
      <3>1. /\ plan[c] # None /\ plan[c].fp \in seen[c] /\ tx[c].save \in {None, plan[c]}
            /\ tx[c].save = None => Live(plan[c])
        BY Zenon, <1>3, <2>8 DEF CallQ, PreviewQ, PreviewAt
      <3>2. Live(plan[c])'
        <4>1. CASE tx[c].save = None
          <5>1. plan[c] \in PlanType /\ Live(plan[c])
            BY Zenon, <2>6, <3>1, <4>1
          <5> QED BY Zenon, <1>6, <2>6, <5>1 DEF Live
        <4>2. CASE tx[c].save # None
          <5>1. plan[c] \in plans'
            BY Zenon, <1>1, <3>1, <4>2 DEF ApplyTx
          <5> QED BY Zenon, <2>6, <5>1 DEF Live
        <4> QED BY Zenon, <4>1, <4>2
      <3>3. PreviewAt(c)'
        BY Zenon, <1>8, <2>5 DEF PreviewAt
      <3> QED BY Zenon, <2>6, <3>1, <3>2, <3>3 DEF PreviewQ, Live
    <2> QED BY Zenon, <2>2, <2>4, <2>7, <2>8 DEF CallQ
  <1> QED BY Zenon, <1>6, <1>9, <1>10 DEF QInv

(* Cleanups, grants and the clock. *)
LEMMA EnvironmentQ == ASSUME IInv, QInv, CleanupExpiredPlans \/ ChangePolicy \/ Tick \/ UNCHANGED vars PROVE QInv'
  <1>1. /\ now \in Nat /\ plans \subseteq PlanType /\ seen \in [Calls -> SUBSET (Policies \cup {Deny})]
        /\ effects \subseteq EffectType
    BY TimeAssumption DEF IInv, TypeOK
  <1>2. idem' = idem /\ effects' = effects /\ tx' = tx /\ UNCHANGED <<pc, local, reply, resp>>
    BY Zenon DEF CleanupExpiredPlans, ChangePolicy, Tick, tables, vars
  <1>3. now' \in Nat /\ now <= now'
    <2>1. now' = now \/ now' = now + 1
      BY Zenon DEF CleanupExpiredPlans, ChangePolicy, Tick, vars
    <2> QED BY <1>1, <2>1
  <1>4. plans' = plans \/ (now' = now /\ plans' = plans \ Expired(now))
    BY Zenon DEF CleanupExpiredPlans, ChangePolicy, Tick, tables, vars
  <1>5. \A p \in PlanType : Live(p) => Live(p)'
    <2>1. \A p \in PlanType : p.exp \in Nat
      BY Zenon DEF PlanType
    <2> QED BY <1>1, <1>3, <1>4, <2>1 DEF Live, Expired
  <1>6. PlansBound'
    BY Zenon, <1>4 DEF QInv, PlansBound
  <1>7. ASSUME NEW d \in Calls PROVE seen[d] \subseteq seen'[d] /\ (InTx(d) => policy' \in seen'[d])
    <2>1. InTx(d) => policy \in seen[d]
      BY Zenon DEF QInv, CallQ, Stored
    <2>2. CASE ChangePolicy
      BY Zenon, <1>1, <2>2 DEF ChangePolicy
    <2>3. CASE policy' = policy /\ seen' = seen
      BY Zenon, <2>1, <2>3
    <2> QED BY Zenon, <2>2, <2>3 DEF CleanupExpiredPlans, Tick, vars
  <1>8. EffectsKept'
    <2>1. PlanFidelity /\ \A e \in effects : e.fp \in seen[e.call] /\ e.call \in Calls
      BY Zenon, <1>1 DEF QInv, EffectsKept, EffectType, Calls
    <2>2. PlanFidelity'
      BY Zenon, <1>2, <2>1 DEF PlanFidelity, local
    <2>3. \A e \in effects' : e.fp \in seen'[e.call]
      BY Zenon, <1>2, <1>7, <2>1
    <2> QED BY Zenon, <2>2, <2>3 DEF EffectsKept
  <1> QED BY Zenon, <1>2, <1>3, <1>5, <1>6, <1>7, <1>8, FrameQ

-----------------------------------------------------------------------------
LEMMA NextQInv == IInv /\ QInv /\ [Next]_vars => QInv'
  <1> SUFFICES ASSUME IInv, QInv, [Next]_vars PROVE QInv'
    BY Zenon
  <1>1. ASSUME NEW c \in Previews, PreviewStart(c) \/ PreviewStep(c) PROVE QInv'
    BY Zenon, <1>1, PreviewStartQ, PreviewPlanQ, PreviewImpactQ, PreviewTxIntentQ, PreviewTxImpactQ, PreviewSaveQ
      DEF PreviewStep
  <1>2. ASSUME NEW c \in Executes, ExecuteStart(c) \/ ExecuteStep(c) PROVE QInv'
    BY Zenon, <1>2, ExecuteStartQ, ExecuteLookupQ, ExecuteResolveQ, ExecuteImpactQ, TxIntentQ, TxImpactQ, TxReserveQ,
        HandlerReadQ, HandlerWriteQ, TxCompleteQ, TxAbortQ, ReplayReadQ, ReplayIntentQ, ReplayImpactQ DEF ExecuteStep
  <1>3. ASSUME NEW c \in Calls, EndStep(c) \/ DependencyFailure(c) \/ Crash(c) \/ Orphan(c) PROVE QInv'
    BY Zenon, <1>3, TxAuditQ, CommittedQ, CommitInDoubtQ, RolledBackQ, RollbackInDoubtQ, RespondQ,
        DependencyFailureQ, CrashQ, OrphanCommitQ, OrphanAbortQ DEF EndStep, Orphan
  <1>4. CASE CleanupExpiredPlans \/ ChangePolicy \/ Tick \/ UNCHANGED vars
    BY Zenon, <1>4, EnvironmentQ
  <1> QED BY Zenon, <1>1, <1>2, <1>3, <1>4 DEF Next

LEMMA PlanInvariance == Spec => []QInv
  BY InitIInv, InitQInv, NextIInv, NextQInv, PTL DEF Spec

(* A plan that Preview has answered is kept until it expires, an effect is *)
(* the one its plan promised, and the decision behind every effect, replay *)
(* and saved plan was in force since the transaction that used it began.   *)
THEOREM PlansKept == Spec => []PlansHonoured
  <1>1. IInv /\ QInv => PlansHonoured
    <2> SUFFICES ASSUME IInv, QInv PROVE PlansHonoured
      BY Zenon
    <2>1. PlanFidelity /\ \A e \in effects : e.fp \in seen[e.call]
      BY Zenon DEF QInv, EffectsKept
    <2>2. ASSUME NEW c \in Previews, resp[c] # None, resp[c].kind = "ok"
          PROVE  plan[c].fp \in seen[c] /\ Live(plan[c])
      BY Zenon, <2>2 DEF QInv, CallQ, PreviewQ, IsOk, Calls
    <2>3. ASSUME NEW c \in Executes, resp[c] # None, resp[c].kind = "ok", found[c] # None
          PROVE  found[c].fp \in seen[c]
      BY Zenon, <2>3 DEF QInv, CallQ, ExecuteQ, IsOk, Calls
    <2> QED BY Zenon, <2>1, <2>2, <2>3 DEF PlansHonoured, IssuedPlanKept, AuthorizedInTransaction, Live
  <1> QED BY <1>1, Invariance, PlanInvariance, PTL

(* The reason a call is given is true: the key was used for something else *)
(* or the plan has expired, and nobody is told to wait for a running       *)
(* execution (CompletedCode, LoadCode, Reserve).                           *)
THEOREM RejectionsTrue == Spec => []RejectionsExplained
  <1>1. QInv => RejectionsExplained
    <2> SUFFICES ASSUME QInv, NEW c \in Executes, resp[c] # None
                 PROVE  /\ resp[c].code = "idempotency_conflict" =>
                            LET rec == idem[req[c].key] IN
                            rec # None /\ (rec.input # req[c].input \/ rec.plan # req[c].plan)
                        /\ resp[c].code = "plan_not_found" => req[c].plan.exp <= now
                        /\ resp[c].code # "idempotency_in_progress"
      BY Zenon DEF RejectionsExplained
    <2>1. Explained(c, resp[c])
      BY Zenon DEF QInv, CallQ, ExecuteQ, Calls
    <2> QED BY Zenon, <2>1 DEF Explained
  <1> QED BY <1>1, PlanInvariance, PTL
=============================================================================
