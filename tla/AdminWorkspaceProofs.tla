------------------------ MODULE AdminWorkspaceProofs ------------------------
(***************************************************************************)
(* Two properties of the admin console's views for any number of gestures, *)
(* queries, requests in flight, records and users.                         *)
(***************************************************************************)
EXTENDS AdminWorkspace, TLAPS

(* Requests are numbered by begin, and the current one asks for what the   *)
(* view is set to: whatever changes the query forgets the request.         *)
RequestInv ==
    /\ begun \in Nat
    /\ \A f \in fetches : f.id \in 1..begun
    /\ view = "audit" => filters = NoFilters
    /\ view \in PagedViews => \A f \in fetches : f.id = active => f.query = Wanted

PagesInv == RequestInv /\ PageMatchesQuery

-----------------------------------------------------------------------------
LEMMA PagesBegin == Init => PagesInv
BY DEF Init, PagesInit, PagesInv, RequestInv, PageMatchesQuery, PagedViews

(* A step that leaves the paged views alone. *)
LEMMA PagesQuiet ==
    ASSUME PagesInv, UNCHANGED <<pageState, timer, request>>, view' = view \/ view' \notin PagedViews
    PROVE  PagesInv'
<1>1. RequestInv'
  BY DEF PagesInv, RequestInv, Wanted, PagedViews, pageState, request
<1>2. PageMatchesQuery'
  <2> SUFFICES ASSUME view' \in PagedViews PROVE PageMatchesQuery'
    BY DEF PageMatchesQuery
  <2>1. view \in PagedViews /\ failure' = failure
    BY DEF pageState
  <2>2. (~pageLoading' /\ ~timer' /\ failure' = None) => (~pageLoading /\ ~timer /\ failure = None)
    BY Zenon DEF pageState
  <2>3. page' = page /\ Wanted' = Wanted
    BY DEF pageState, Wanted
  <2> QED BY <2>1, <2>2, <2>3 DEF PagesInv, PageMatchesQuery
<1> QED BY <1>1, <1>2 DEF PagesInv

(* A load under way satisfies the property whatever it will bring. *)
LEMMA PagesLoading ==
    ASSUME RequestInv', pageLoading' \/ timer' \/ failure' # None PROVE PagesInv'
BY DEF PagesInv, PageMatchesQuery

LEMMA PagesMoves ==
    ASSUME PagesInv, (\E v \in PagedViews : MountPages(v)) \/ UnmountPages
    PROVE  PagesInv'
<1>1. begun' = 0 /\ fetches' = {} /\ filters' = NoFilters /\ pageLoading' = TRUE
  BY DEF MountPages, UnmountPages, Fresh
<1>2. RequestInv'
  BY <1>1 DEF RequestInv
<1> QED BY <1>1, <1>2, PagesLoading

(* begin gives the load a number that no request in flight has. *)
LEMMA PagesLoad ==
    ASSUME PagesInv, view \in PagedViews, loadPage PROVE PagesInv'
<1>1. PICK q : /\ q = Wanted
               /\ begun' = begun + 1 /\ active' = begun + 1
               /\ fetches' = fetches \cup {[id |-> begun + 1, query |-> q]}
  BY DEF loadPage, TasksLoad, AuditLoad, begin, Wanted, PagesInv, RequestInv, PagedViews
<1>2. pageLoading' = TRUE /\ UNCHANGED <<view, filters, before>>
  BY DEF loadPage, TasksLoad, AuditLoad
<1>3. Wanted' = Wanted
  BY <1>2 DEF Wanted
<1>4. begun' \in Nat /\ \A f \in fetches' : f.id \in 1..begun'
  BY <1>1 DEF PagesInv, RequestInv
<1>5. \A f \in fetches' : f.id = active' => f.query = Wanted
  BY <1>1 DEF PagesInv, RequestInv
<1>6. RequestInv'
  BY <1>2, <1>3, <1>4, <1>5 DEF PagesInv, RequestInv
<1> QED BY <1>2, <1>6, PagesLoading

LEMMA PagesTurn ==
    ASSUME PagesInv, NextPage \/ PreviousPage PROVE PagesInv'
<1>1. PICK c : SetBefore(c)
  BY DEF NextPage, PreviousPage
<1>2. UNCHANGED <<view, page, pageLoading, failure, filters>>
  BY DEF NextPage, PreviousPage
<1>3. CASE c = before
  <2>1. UNCHANGED <<before, timer, request>>
    BY <1>1, <1>3 DEF SetBefore
  <2>2. RequestInv'
    BY <1>2, <2>1 DEF PagesInv, RequestInv, Wanted, request
  <2>3. PageMatchesQuery'
    <3>1. (~pageLoading' /\ ~timer' /\ failure' = None) => (~pageLoading /\ ~timer /\ failure = None)
      BY Zenon, <1>2, <2>1
    <3> QED BY <1>2, <2>1, <3>1 DEF PagesInv, PageMatchesQuery, Wanted
  <2> QED BY <2>2, <2>3 DEF PagesInv
<1>4. CASE c # before
  <2>1. timer' = TRUE /\ active' = 0 /\ begun' = begun /\ fetches' = fetches
    BY <1>1, <1>4 DEF SetBefore, Reload, cancel
  <2>2. RequestInv'
    BY <1>2, <2>1 DEF PagesInv, RequestInv
  <2> QED BY <2>1, <2>2, PagesLoading
<1> QED BY <1>3, <1>4

LEMMA PagesAnswer ==
    ASSUME PagesInv, NEW fetch \in fetches, LoadAnswers(fetch) \/ LoadFails(fetch) PROVE PagesInv'
<1>0. /\ fetches' \subseteq fetches
      /\ UNCHANGED <<view, filters, before, timer, begun>>
      /\ active' \in {active, 0}
  BY DEF LoadAnswers, LoadFails
<1>1. RequestInv'
  BY <1>0 DEF PagesInv, RequestInv, Wanted
<1>2. CASE isCurrent(fetch) /\ LoadAnswers(fetch)
  <2>1. view \in PagedViews => page'.of = Wanted
    BY <1>2 DEF LoadAnswers, isCurrent, PagesInv, RequestInv
  <2>2. Wanted' = Wanted
    BY <1>0 DEF Wanted
  <2> QED BY <1>0, <1>1, <2>1, <2>2 DEF PagesInv, PageMatchesQuery
<1>3. CASE isCurrent(fetch) /\ LoadFails(fetch)
  <2>1. failure' # None
    BY <1>3, PagesAssumption DEF LoadFails
  <2> QED BY <1>1, <2>1, PagesLoading
<1>4. CASE ~isCurrent(fetch)
  <2>1. UNCHANGED <<page, pageLoading, failure, timer>> /\ Wanted' = Wanted
    BY <1>0, <1>4 DEF LoadAnswers, LoadFails, Wanted
  <2>2. (~pageLoading' /\ ~timer' /\ failure' = None) => (~pageLoading /\ ~timer /\ failure = None)
    BY Zenon, <2>1
  <2> QED BY <1>0, <1>1, <2>1, <2>2 DEF PagesInv, PageMatchesQuery
<1> QED BY <1>2, <1>3, <1>4

LEMMA PagesNextKeeps == ASSUME PagesInv, [Next]_workspaceVars PROVE PagesInv'
<1>1. CASE (\E v \in PagedViews : MountPages(v)) \/ UnmountPages
  BY <1>1, PagesMoves
<1>2. CASE PagesStep
  <2>1. CASE TimerFires /\ view \in PagedViews
    BY <2>1, PagesLoad DEF TimerFires
  <2>2. CASE TimerFires /\ view \notin PagedViews
    <3>1. pageLoading' = TRUE /\ view' = view /\ begun' = begun + 1 /\ filters' = filters
          /\ fetches' \subseteq fetches \cup {[id |-> begun + 1, query |-> [filters |-> NoFilters, before |-> before]]}
      BY <2>2 DEF TimerFires, loadPage, AuditLoad, begin, PagedViews
    <3>2. RequestInv'
      BY <2>2, <3>1 DEF PagesInv, RequestInv, PagedViews
    <3> QED BY <3>1, <3>2, PagesLoading
  <2>3. CASE Refresh
    BY <2>3, PagesLoad DEF Refresh
  <2>4. ASSUME NEW f \in Filters, applyFilters(f) PROVE PagesInv'
    <3>1. view = "tasks" /\ view' = view /\ timer' = TRUE /\ active' = 0 /\ begun' = begun /\ fetches' = fetches
      BY <2>4 DEF applyFilters, Reload, cancel
    <3>2. RequestInv'
      BY <3>1 DEF PagesInv, RequestInv
    <3> QED BY <3>1, <3>2, PagesLoading
  <2>5. CASE NextPage \/ PreviousPage
    BY <2>5, PagesTurn
  <2>6. ASSUME NEW f \in fetches, LoadAnswers(f) \/ LoadFails(f) PROVE PagesInv'
    BY <2>6, PagesAnswer
  <2> QED BY <1>2, <2>1, <2>2, <2>3, <2>4, <2>5, <2>6 DEF PagesStep
<1>3. CASE (MountRecords \/ UnmountRecords) /\ UNCHANGED Pages
  <2>1. view' = "records" \/ view' = None
    BY <1>3 DEF MountRecords, UnmountRecords, Mount, Unmount
  <2> QED BY <1>3, <2>1, PagesQuiet, ViewsAssumption DEF Pages, PagedViews, Views
<1>4. CASE RecordsStep /\ UNCHANGED Pages
  <2>1. view' = view
    BY <1>4 DEF RecordsStep, RefreshRecords, ListStep, ServeList, ListAnswers, ListFails, openCreate, openEdit, AskDelete,
        CloseEditor, CloseDelete, save, remove, Submit, ChangeStep, HandleCreate, HandleUpdate, HandleDelete, Applied,
        ChangeAnswersHere, ChangeAnswersElsewhere, ChangeFails, ForeignChange, dismiss
  <2> QED BY <1>4, <2>1, PagesQuiet DEF Pages
<1>5. CASE UNCHANGED workspaceVars
  BY <1>5, PagesQuiet DEF workspaceVars
<1> QED BY <1>1, <1>2, <1>3, <1>4, <1>5 DEF Next

(* Whatever the order of answers and gestures, a view that is done loading *)
(* and reports no failure shows the answer to the filters and the cursor   *)
(* it is set to (useLatestRequest, TasksView, AuditView).                  *)
THEOREM PageAnswersQuery == Spec => []PageMatchesQuery
<1>1. PagesInv => PageMatchesQuery
  BY DEF PagesInv
<1> QED BY <1>1, PagesBegin, PagesNextKeeps, PTL DEF Spec

-----------------------------------------------------------------------------
(* Changes are numbered by Submit, and an update carries the version of    *)
(* the record its dialog was opened on.                                    *)
Fields == {"n", "kind", "record", "version", "stage", "result", "here"}

Shaped(c) == c = [f \in Fields |-> c[f]]

ChangeInv ==
    /\ submitted \in Nat
    /\ \A c \in changes :
          /\ Shaped(c)
          /\ c.n \in 1..submitted
          /\ c.kind = "update" => c.version = c.record.version
    /\ \A c, d \in changes : c.n = d.n => c = d

(* What the property says of one step. *)
Replaces ==
    \A c \in changes, d \in changes' :
        c.n = d.n /\ c.kind = "update" /\ c.stage # d.stage => rows[c.record.id] = c.record.version

LEMMA ChangesBegin == Init => ChangeInv
BY DEF Init, RecordsInit, ChangeInv

(* A change that is left behind, or applied, is otherwise what it was. *)
LEMMA LeftBehind ==
    ASSUME NEW c, Shaped(c)
    PROVE  LET d == [c EXCEPT !.here = FALSE]
           IN  /\ Shaped(d)
               /\ d.n = c.n /\ d.kind = c.kind /\ d.record = c.record /\ d.version = c.version
               /\ d.stage = c.stage
BY DEF Shaped, Fields

LEMMA AppliedIs ==
    ASSUME NEW c, Shaped(c), NEW r
    PROVE  LET d == [c EXCEPT !.stage = "applied", !.result = r]
           IN  /\ Shaped(d)
               /\ d.n = c.n /\ d.kind = c.kind /\ d.record = c.record /\ d.version = c.version
BY DEF Shaped, Fields

LEMMA ChangesShrink ==
    ASSUME ChangeInv, changes' \subseteq changes, submitted' = submitted PROVE ChangeInv' /\ Replaces
BY DEF ChangeInv, Replaces

LEMMA ChangesLeft ==
    ASSUME ChangeInv, changes' = {[c EXCEPT !.here = FALSE] : c \in changes}, submitted' = submitted
    PROVE  ChangeInv' /\ Replaces
<1> DEFINE left(c) == [c EXCEPT !.here = FALSE]
           Same(c, d) == /\ Shaped(d)
                         /\ d.n = c.n /\ d.kind = c.kind /\ d.record = c.record /\ d.version = c.version
                         /\ d.stage = c.stage
<1>1. \A c \in changes : Same(c, left(c))
  BY LeftBehind DEF ChangeInv
<1>2. changes' = {left(c) : c \in changes}
  OBVIOUS
<1> HIDE DEF left, Same
<1>3. \A d \in changes' : \E c \in changes : d = left(c) /\ Same(c, d)
  BY <1>1, <1>2
<1>4. submitted' \in Nat
  BY DEF ChangeInv
<1>5. ASSUME NEW d \in changes' PROVE Shaped(d) /\ d.n \in 1..submitted' /\ (d.kind = "update" => d.version = d.record.version)
  BY <1>3 DEF ChangeInv, Same
<1>6. ASSUME NEW d \in changes', NEW e \in changes', d.n = e.n PROVE d = e
  BY <1>3, <1>6 DEF ChangeInv, Same
<1>7. ChangeInv'
  BY <1>4, <1>5, <1>6 DEF ChangeInv
<1>8. Replaces
  BY <1>3 DEF ChangeInv, Replaces, Same
<1> QED BY <1>7, <1>8

LEMMA ChangesSubmit ==
    ASSUME ChangeInv, NEW kind, NEW record, NEW version, Submit(kind, record, version),
           kind = "update" => version = record.version
    PROVE  ChangeInv' /\ Replaces
<1> DEFINE new == [n |-> submitted + 1, kind |-> kind, record |-> record, version |-> version,
                   stage |-> "sent", result |-> None, here |-> TRUE]
<1>1. changes' = changes \cup {new} /\ submitted' = submitted + 1
  BY DEF Submit
<1>2. Shaped(new) /\ new.n = submitted + 1 /\ new.kind = kind /\ new.record = record /\ new.version = version
  BY DEF Shaped, Fields
<1> HIDE DEF new
<1>3. \A c \in changes : c.n # new.n /\ c.n \in 1..(submitted + 1)
  BY <1>2 DEF ChangeInv
<1>4. new.n \in 1..(submitted + 1) /\ submitted + 1 \in Nat
  BY <1>2 DEF ChangeInv
<1>5. ChangeInv'
  BY <1>1, <1>2, <1>3, <1>4 DEF ChangeInv
<1>6. Replaces
  BY <1>1, <1>2, <1>3 DEF ChangeInv, Replaces
<1> QED BY <1>5, <1>6

LEMMA ChangesApply ==
    ASSUME ChangeInv, NEW c \in changes, HandleCreate(c) \/ HandleUpdate(c) \/ HandleDelete(c)
    PROVE  ChangeInv' /\ Replaces
<1>1. PICK r : changes' = (changes \ {c}) \cup {[c EXCEPT !.stage = "applied", !.result = r]}
  BY DEF HandleCreate, HandleUpdate, HandleDelete, Applied
<1>2. submitted' = submitted
  BY DEF HandleCreate, HandleUpdate, HandleDelete, Applied
<1> DEFINE d == [c EXCEPT !.stage = "applied", !.result = r]
<1>3. Shaped(d) /\ d.n = c.n /\ d.kind = c.kind /\ d.record = c.record /\ d.version = c.version
  BY AppliedIs DEF ChangeInv
<1>4. changes' = (changes \ {c}) \cup {d}
  BY <1>1
<1> HIDE DEF d
<1>5. ChangeInv'
  BY <1>2, <1>3, <1>4 DEF ChangeInv
<1>6. c.kind = "update" => rows[c.record.id] = c.record.version
  BY DEF HandleCreate, HandleUpdate, HandleDelete, Matches, ChangeInv
<1>7. Replaces
  BY <1>3, <1>4, <1>6 DEF ChangeInv, Replaces
<1> QED BY <1>5, <1>7

LEMMA ChangesNextKeep == ASSUME ChangeInv, [Next]_workspaceVars PROVE ChangeInv' /\ Replaces
<1>1. CASE UNCHANGED recordsState
  BY <1>1, ChangesShrink DEF recordsState
<1>2. CASE MountRecords
  BY <1>2, ChangesShrink DEF MountRecords
<1>3. CASE UnmountRecords
  BY <1>3, ChangesLeft DEF UnmountRecords
<1>4. CASE RecordsStep
  <2>1. CASE save
    <3>1. editor = New => Submit("create", None, 0)
      BY <2>1 DEF save
    <3>2. editor # New => Submit("update", editor, editor.version)
      BY <2>1 DEF save
    <3> QED BY <3>1, <3>2, ChangesSubmit
  <2>2. CASE remove
    BY <2>2, ChangesSubmit DEF remove
  <2>3. ASSUME NEW c \in changes, HandleCreate(c) \/ HandleUpdate(c) \/ HandleDelete(c) PROVE ChangeInv' /\ Replaces
    BY <2>3, ChangesApply
  <2>4. ASSUME NEW c \in changes, ChangeAnswersHere(c) \/ ChangeAnswersElsewhere(c) \/ ChangeFails(c)
        PROVE  ChangeInv' /\ Replaces
    BY <2>4, ChangesShrink DEF ChangeAnswersHere, ChangeAnswersElsewhere, ChangeFails
  <2>5. CASE RefreshRecords \/ ListStep \/ openCreate \/ CloseEditor \/ CloseDelete \/ ForeignChange
    BY <2>5, ChangesShrink DEF RefreshRecords, ListStep, ServeList, ListAnswers, ListFails, openCreate, CloseEditor,
        CloseDelete, ForeignChange
  <2>6. ASSUME NEW r, openEdit(r) \/ AskDelete(r) PROVE ChangeInv' /\ Replaces
    BY <2>6, ChangesShrink DEF openEdit, AskDelete
  <2>7. ASSUME NEW n, dismiss(n) PROVE ChangeInv' /\ Replaces
    BY <2>7, ChangesShrink DEF dismiss
  <2> QED BY <1>4, <2>1, <2>2, <2>3, <2>4, <2>5, <2>6, <2>7 DEF RecordsStep, ChangeStep
<1> QED BY <1>1, <1>2, <1>3, <1>4 DEF Next, workspaceVars

(* For any records, users and orders of lists and answers: an update is    *)
(* applied only to the version its author saw (RecordsWorkspace.save,      *)
(* handler.update).                                                        *)
THEOREM SavesReplaceSeen == Spec => SavesReplaceWhatWasSeen
<1>1. ChangeInv /\ [Next]_workspaceVars => [Replaces]_recordsVars
  BY ChangesNextKeep
<1>2. ChangeInv /\ [Next]_workspaceVars => ChangeInv'
  BY ChangesNextKeep
<1> QED BY <1>1, <1>2, ChangesBegin, PTL DEF Spec, SavesReplaceWhatWasSeen, Replaces
=============================================================================
