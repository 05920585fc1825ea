---------------------------- MODULE AdminRecords ----------------------------
(***************************************************************************)
(* The records view of the generated admin console: RecordsProvider and    *)
(* RecordsWorkspace with their dialogs, the toasts, and the handlers of    *)
(* the records module behind them (records.go).                            *)
(*                                                                         *)
(* The view keeps a copy of the server's records.  It reads them all with  *)
(* `load' and patches its copy with the answer to every change of its own. *)
(* A request reaches the server some time after it was sent and its answer *)
(* comes back some time later, while other users change the records, the   *)
(* dialogs open and close, the list is read again and the view is left.    *)
(*                                                                         *)
(* A record is its identifier and its version: each version of a record    *)
(* has a content of its own.  There are fewer records than the rows a list *)
(* may have.                                                               *)
(***************************************************************************)
EXTENDS AdminViews, Sequences, FiniteSets, SequencesExt

CONSTANTS
    MaxRecords,     \* bound on the records ever created
    Grants,         \* what the actor may do: "create", "update", "delete"
    MaxChanges,     \* bound on the changes submitted
    MaxForeign,     \* bound on the changes made by others
    New             \* RecordDialog with no record: a creation

ASSUME RecordsAssumption == MaxRecords \in Nat /\ MaxChanges \in Nat /\ MaxForeign \in Nat

VARIABLES
    rows,           \* the server's records: versions, 0 for no record
    born,           \* records ever created: their number is the last identifier
    foreign,        \* changes made by others
    items,          \* RecordsProvider ...
    loading,
    loaded,
    error,
    list,           \* ... and its GET /api/records, if in flight
    editor,         \* RecordsWorkspace: what RecordDialog is open on, if it is
    deleting,
    busy,
    changes,        \* changes in flight
    submitted,
    toasts,         \* ToastProvider: the changes reported on screen
    crossed         \* history: the copy may differ from the server's records

server == <<rows, born, foreign>>
provider == <<items, loading, loaded, error, list>>
dialogs == <<editor, deleting, busy>>
recordsState == <<server, provider, dialogs, changes, submitted, toasts, crossed>>
recordsVars == <<view, gestures, recordsState>>

Ids == 1..MaxRecords
Record == [id : Ids, version : Nat \ {0}]
NoList == [stage |-> "none", records |-> << >>, clean |-> FALSE]

(* The rows, as the list the server answers with. *)
Stored == {[id |-> i, version |-> rows[i]] : i \in {j \in Ids : rows[j] # 0}}

forbidden == error = "forbidden"
RecordsShown ==
    /\ ~forbidden
    /\ error = None \/ loading
    /\ loaded \/ ~loading
DialogOpen == editor # None \/ deleting # None

-----------------------------------------------------------------------------
(* ToastProvider.  A toast has a timer for as long as it is shown; both go *)
(* when the timer fires or the user presses ToastRegion's button.  A       *)
(* change shows one toast, so its number stands for the toast's.           *)

show(n) == toasts' = toasts \cup {n}

dismiss(n) ==
    /\ toasts' = toasts \ {n}
    /\ UNCHANGED <<view, gestures, server, provider, dialogs, changes, submitted, crossed>>

-----------------------------------------------------------------------------
(* RecordsProvider.load.  A load under way is not begun again. *)

load ==
    IF list.stage # "none" THEN UNCHANGED provider
    ELSE /\ loading' = TRUE
         /\ error' = None
         /\ list' = [NoList EXCEPT !.stage = "sent"]
         /\ UNCHANGED <<items, loaded>>

(* Mounting runs the effect, which loads what is not loaded.  The state of *)
(* the provider and of the workspace is that of the view.                  *)
MountRecords ==
    /\ Mount("records")
    /\ items' = << >> /\ loaded' = FALSE /\ loading' = TRUE /\ error' = None
    /\ list' = [NoList EXCEPT !.stage = "sent"]
    /\ editor' = None /\ deleting' = None /\ busy' = FALSE
    /\ crossed' = FALSE
    /\ UNCHANGED <<server, changes, submitted, toasts>>

(* The changes in flight go on, and their answers find no view to patch. *)
UnmountRecords ==
    /\ Unmount({"records"})
    /\ items' = << >> /\ loaded' = FALSE /\ loading' = FALSE /\ error' = None
    /\ list' = NoList
    /\ editor' = None /\ deleting' = None /\ busy' = FALSE
    /\ changes' = {[c EXCEPT !.here = FALSE] : c \in changes}
    /\ crossed' = FALSE
    /\ UNCHANGED <<server, submitted, toasts>>

(* The refresh and the retry button. *)
RefreshRecords ==
    /\ Gesture
    /\ view = "records"
    /\ ~loading /\ ~forbidden /\ ~DialogOpen
    /\ load
    /\ UNCHANGED <<view, server, dialogs, changes, submitted, toasts, crossed>>

(* The answer to a change the server has applied, when it comes after a    *)
(* list read now, would add a record the list has or take a record of the  *)
(* list back to an older version.                                          *)
Undoes(change) ==
    /\ change.here /\ change.stage = "applied"
    /\ \/ change.kind = "create"
       \/ change.kind = "update" /\ rows[change.record.id] \notin {0, change.result.version}

(* handler.list: one statement, hence one moment of the records. *)
ServeList ==
    /\ list.stage = "sent"
    /\ list' = [stage |-> "answered", records |-> SetToSeq(Stored),
                clean |-> \A c \in changes : ~Undoes(c)]
    /\ UNCHANGED <<view, gestures, server, items, loading, loaded, error, dialogs, changes, submitted, toasts, crossed>>

ListAnswers ==
    /\ list.stage = "answered"
    /\ items' = list.records
    /\ loaded' = TRUE
    /\ loading' = FALSE
    /\ list' = NoList
    /\ crossed' = ~list.clean
    /\ UNCHANGED <<view, gestures, server, error, dialogs, changes, submitted, toasts>>

(* Refused, or failed before or after the server read its records. *)
ListFails ==
    /\ list.stage # "none"
    /\ error' \in {"forbidden", "other"}
    /\ loading' = FALSE
    /\ list' = NoList
    /\ UNCHANGED <<view, gestures, server, items, loaded, dialogs, changes, submitted, toasts, crossed>>

-----------------------------------------------------------------------------
(* RecordsWorkspace: the dialogs.  A dialog is modal; it can be dismissed  *)
(* at any time, also while its change is in flight.                        *)

openCreate ==
    /\ Gesture
    /\ view = "records"
    /\ ~DialogOpen /\ ~forbidden /\ "create" \in Grants
    /\ editor' = New
    /\ UNCHANGED <<view, server, provider, deleting, busy, changes, submitted, toasts, crossed>>

openEdit(record) ==
    /\ Gesture
    /\ RecordsShown /\ ~DialogOpen /\ "update" \in Grants
    /\ editor' = record
    /\ UNCHANGED <<view, server, provider, deleting, busy, changes, submitted, toasts, crossed>>

AskDelete(record) ==
    /\ Gesture
    /\ RecordsShown /\ ~DialogOpen /\ "delete" \in Grants
    /\ deleting' = record
    /\ UNCHANGED <<view, server, provider, editor, busy, changes, submitted, toasts, crossed>>

CloseEditor ==
    /\ editor # None
    /\ editor' = None
    /\ UNCHANGED <<view, gestures, server, provider, deleting, busy, changes, submitted, toasts, crossed>>

CloseDelete ==
    /\ deleting # None
    /\ deleting' = None
    /\ UNCHANGED <<view, gestures, server, provider, editor, busy, changes, submitted, toasts, crossed>>

(* The dialogs' submit buttons are disabled while busy, and so is the      *)
(* implicit submission of the form.                                        *)
CanSubmit == ~busy

Submit(kind, record, version) ==
    /\ Gesture
    /\ CanSubmit
    /\ submitted < MaxChanges
    /\ submitted' = submitted + 1
    /\ busy' = TRUE
    /\ changes' = changes \cup {[n |-> submitted + 1, kind |-> kind, record |-> record, version |-> version,
                                 stage |-> "sent", result |-> None, here |-> TRUE]}
    /\ UNCHANGED <<view, server, provider, editor, deleting, toasts, crossed>>

(* Mutant: the version sent is the one that is listed by now. *)
SaveListed ==
    /\ editor # None
    /\ IF editor = New THEN Submit("create", None, 0)
       ELSE \E r \in ToSet(items) : r.id = editor.id /\ Submit("update", editor, r.version)

(* The version that is sent is that of the record the dialog was opened    *)
(* on, however old.                                                        *)
save ==
    /\ editor # None
    /\ IF editor = New THEN Submit("create", None, 0)
       ELSE Submit("update", editor, editor.version)

remove ==
    /\ deleting # None
    /\ Submit("delete", deleting, 0)

-----------------------------------------------------------------------------
(* The handlers of records.go: each change is one transaction. *)

Applied(change, result) ==
    /\ changes' = (changes \ {change}) \cup {[change EXCEPT !.stage = "applied", !.result = result]}
    /\ list' = [list EXCEPT !.clean = FALSE]
    /\ crossed' = (crossed \/ list.stage = "answered" \/ ~change.here)
    /\ UNCHANGED <<view, gestures, foreign, items, loading, loaded, error, dialogs, submitted, toasts>>

(* newRecordID never gives an identifier twice, nor one of a record gone. *)
Insert ==
    /\ born < MaxRecords
    /\ born' = born + 1
    /\ rows' = [rows EXCEPT ![born + 1] = 1]

HandleCreate(change) ==
    /\ change.kind = "create" /\ change.stage = "sent"
    /\ Insert
    /\ Applied(change, [id |-> born + 1, version |-> 1])

(* UPDATE ... WHERE record_id = id AND version = version *)
Matches(record, version) == rows[record.id] = version

HandleUpdate(change) ==
    /\ change.kind = "update" /\ change.stage = "sent"
    /\ Matches(change.record, change.version)
    /\ rows' = [rows EXCEPT ![change.record.id] = @ + 1]
    /\ Applied(change, [id |-> change.record.id, version |-> rows[change.record.id] + 1])
    /\ UNCHANGED born

HandleDelete(change) ==
    /\ change.kind = "delete" /\ change.stage = "sent"
    /\ rows[change.record.id] # 0
    /\ rows' = [rows EXCEPT ![change.record.id] = 0]
    /\ Applied(change, None)
    /\ UNCHANGED born

(* Another user of the same records.  One who changes them while the view  *)
(* has neither a copy nor a change under way leaves another initial state. *)
ForeignChange ==
    /\ view = "records" \/ changes # {}
    /\ foreign < MaxForeign
    /\ foreign' = foreign + 1
    /\ \/ \E i \in Ids : rows[i] # 0 /\ rows' = [rows EXCEPT ![i] = @ + 1] /\ UNCHANGED born
       \/ \E i \in Ids : rows[i] # 0 /\ rows' = [rows EXCEPT ![i] = 0] /\ UNCHANGED born
       \/ Insert
    /\ crossed' = TRUE
    /\ list' = [list EXCEPT !.clean = FALSE]
    /\ UNCHANGED <<view, gestures, items, loading, loaded, error, dialogs, changes, submitted, toasts>>

-----------------------------------------------------------------------------
(* The continuations of create, update and remove and then of save and     *)
(* remove, after the await.                                                *)

(* Mutant: a record created is not added to the copy. *)
PatchedWithoutNew(change) ==
    CASE change.kind = "create" -> items
      [] change.kind = "update" ->
            [k \in DOMAIN items |-> IF items[k].id = change.record.id THEN change.result ELSE items[k]]
      [] change.kind = "delete" -> SelectSeq(items, LAMBDA r : r.id # change.record.id)

Patched(change) ==
    CASE change.kind = "create" -> <<change.result>> \o items
      [] change.kind = "update" ->
            [k \in DOMAIN items |-> IF items[k].id = change.record.id THEN change.result ELSE items[k]]
      [] change.kind = "delete" -> SelectSeq(items, LAMBDA r : r.id # change.record.id)

(* The dialog that is open when the answer comes is closed, whichever it   *)
(* is.                                                                     *)
ChangeAnswersHere(change) ==
    /\ change.stage = "applied" /\ change.here
    /\ changes' = changes \ {change}
    /\ show(change.n)
    /\ items' = Patched(change)
    /\ busy' = FALSE
    /\ editor' = IF change.kind = "delete" THEN editor ELSE None
    /\ deleting' = IF change.kind = "delete" THEN None ELSE deleting
    /\ UNCHANGED <<view, gestures, server, loading, loaded, error, list, submitted, crossed>>

(* Mutant: a view that has gone reports nothing. *)
ChangeAnswersUnseen(change) ==
    /\ change.stage = "applied" /\ ~change.here
    /\ changes' = changes \ {change}
    /\ UNCHANGED <<view, gestures, server, provider, dialogs, submitted, toasts, crossed>>

ChangeAnswersElsewhere(change) ==
    /\ change.stage = "applied" /\ ~change.here
    /\ changes' = changes \ {change}
    /\ show(change.n)
    /\ UNCHANGED <<view, gestures, server, provider, dialogs, submitted, crossed>>

(* Mutant: the form stays busy when the change fails. *)
ChangeFailsBusy(change) ==
    /\ changes' = changes \ {change}
    /\ show(change.n)
    /\ crossed' = (crossed \/ change.stage = "applied")
    /\ UNCHANGED <<view, gestures, server, provider, editor, deleting, busy, submitted>>

(* Refused, in conflict, or failed before or after the server applied it. *)
ChangeFails(change) ==
    /\ changes' = changes \ {change}
    /\ show(change.n)
    /\ busy' = (busy /\ ~change.here)
    /\ crossed' = (crossed \/ change.stage = "applied")
    /\ UNCHANGED <<view, gestures, server, provider, editor, deleting, submitted>>

-----------------------------------------------------------------------------
RecordsInit ==
    /\ view = None /\ gestures = 0
    /\ born \in 0..MaxRecords
    /\ rows = [i \in Ids |-> IF i <= born THEN 1 ELSE 0]
    /\ foreign = 0
    /\ items = << >> /\ loading = FALSE /\ loaded = FALSE /\ error = None /\ list = NoList
    /\ editor = None /\ deleting = None /\ busy = FALSE
    /\ changes = {} /\ submitted = 0
    /\ toasts = {}
    /\ crossed = FALSE

ListStep == ServeList \/ ListAnswers \/ ListFails

ChangeStep ==
    \E c \in changes :
        \/ HandleCreate(c) \/ HandleUpdate(c) \/ HandleDelete(c)
        \/ ChangeAnswersHere(c) \/ ChangeAnswersElsewhere(c) \/ ChangeFails(c)

RecordsStep ==
    \/ RefreshRecords
    \/ ListStep
    \/ openCreate
    \/ \E r \in ToSet(items) : openEdit(r) \/ AskDelete(r)
    \/ CloseEditor \/ CloseDelete
    \/ save \/ remove
    \/ ChangeStep
    \/ ForeignChange
    \/ \E n \in toasts : dismiss(n)

RecordsNext ==
    \/ MountRecords
    \/ UnmountRecords
    \/ RecordsStep

RecordsSpec == RecordsInit /\ [][RecordsNext]_recordsVars

(* Requests are answered or fail, and timers fire.  The user and the other *)
(* users need never do anything.                                           *)
RecordsFairness ==
    /\ WF_recordsVars(ListStep)
    /\ WF_recordsVars(ChangeStep)
    /\ WF_recordsVars(\E n \in toasts : dismiss(n))

FairRecordsSpec == RecordsSpec /\ RecordsFairness

-----------------------------------------------------------------------------
Change == [n : 1..MaxChanges, kind : {"create", "update", "delete"}, record : Record \cup {None},
           version : Nat, stage : {"sent", "applied"}, result : Record \cup {None}, here : BOOLEAN]

RecordsTypeOK ==
    /\ rows \in [Ids -> Nat] /\ born \in 0..MaxRecords /\ foreign \in 0..MaxForeign
    /\ items \in Seq(Record)
    /\ loading \in BOOLEAN /\ loaded \in BOOLEAN /\ busy \in BOOLEAN
    /\ error \in {None, "forbidden", "other"}
    /\ list.stage \in {"none", "sent", "answered"}
    /\ editor \in Record \cup {New, None} /\ deleting \in Record \cup {None}
    /\ changes \in SUBSET Change
    /\ submitted \in 0..MaxChanges
    /\ toasts \in SUBSET (1..MaxChanges)
    /\ crossed \in BOOLEAN

(* The copy is right: with no change of its own waiting for its answer,    *)
(* the view lists the server's records, each once and in its version.  The *)
(* exceptions are the ones that the code leaves open: another user's       *)
(* change, an answer that was lost, a change applied between the reading   *)
(* of a list and its arrival, and an answer that comes after a list which  *)
(* already has its change (Undoes); a later list repairs them all.         *)
ListMirrorsServer ==
    view = "records" /\ loaded /\ ~crossed /\ (\A c \in changes : c.stage = "sent") =>
        ToSet(items) = Stored /\ Len(items) = Cardinality(Stored)

(* A save replaces what its author saw: an update is applied only to the   *)
(* version of the record that the dialog was opened on, whatever the list  *)
(* has become since.                                                       *)
SavesReplaceWhatWasSeen ==
    [][\A c \in changes, d \in changes' :
        c.n = d.n /\ c.kind = "update" /\ c.stage # d.stage => rows[c.record.id] = c.record.version]_recordsVars

(* Every change that was submitted is reported by a toast, also to a user  *)
(* who has left the view.                                                  *)
ChangesReported ==
    \A n \in 1..MaxChanges : (\E c \in changes : c.n = n) ~> n \in toasts
=============================================================================
