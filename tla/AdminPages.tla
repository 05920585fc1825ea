----------------------------- MODULE AdminPages -----------------------------
(***************************************************************************)
(* The read-only, paged views of the generated admin console (web/src):    *)
(* TasksView, with its filter form, and AuditView, over the hook           *)
(* useLatestRequest.  One of them is mounted at a time.                    *)
(*                                                                         *)
(* A load is asynchronous.  The query is read when it begins, the answer   *)
(* comes back at any later time, and between the two the user may filter,  *)
(* turn the page, refresh or leave.  React runs the views' effect when     *)
(* `load' has changed, that is, when the cursor has or when filters have   *)
(* been applied; the effect cancels what is under way and loads again from *)
(* a timer, so there is a moment in which the state is new, the page is    *)
(* old and nothing is loading.                                             *)
(*                                                                         *)
(* A cursor is a number, 0 the empty string (the first page).  A page is   *)
(* the query it answers, whether it has rows, and its next_before_id.      *)
(***************************************************************************)
EXTENDS AdminViews, Sequences

CONSTANTS
    Filters,        \* what the filter form can ask for
    NoFilters,      \* the filters of a fresh view
    LastCursor,     \* the deepest cursor the server hands out
    MaxHistory      \* bound on the cursors to go back to

ASSUME PagesAssumption ==
    /\ None \notin {"error", "forbidden"}
    /\ NoFilters \in Filters
    /\ LastCursor \in Nat /\ MaxHistory \in Nat

VARIABLES
    page,           \* state of TasksView and AuditView ...
    pageLoading,
    failure,
    filters,
    before,
    history,
    timer,          \* the effect's timeout is set
    active,         \* useLatestRequest: the current request, 0 for none
    begun,          \* requests begun by the mounted view
    fetches         \* ... and those still in flight, aborted ones included

request == <<active, begun, fetches>>
pageState == <<page, pageLoading, failure, filters, before, history>>
pagesVars == <<view, gestures, pageState, timer, request>>

PagedViews == {"tasks", "audit"}
Cursors == 0..LastCursor
Query == [filters : Filters, before : Cursors]
EmptyPage == [of |-> None, rows |-> FALSE, next |-> 0]
Fetch == [id : Nat, query : Query]

-----------------------------------------------------------------------------
(* useLatestRequest. *)

(* cancel: the controller is aborted and forgotten. *)
cancel ==
    /\ active' = 0
    /\ UNCHANGED <<begun, fetches>>

(* begin: cancels the request before it, which may still be answered. *)
begin(query) ==
    /\ begun' = begun + 1
    /\ active' = begun + 1
    /\ fetches' = fetches \cup {[id |-> begun + 1, query |-> query]}

(* Mutant: an answer is taken whichever request it belongs to. *)
IsCurrentAlways(fetch) == TRUE

(* Cancelling forgets the controller that it aborts: the second half of    *)
(* the code's test, that the signal is not aborted, follows from the first.*)
isCurrent(fetch) == active = fetch.id

-----------------------------------------------------------------------------
(* The views' states, and what is on screen. *)

Fresh ==
    /\ page' = EmptyPage
    /\ pageLoading' = TRUE
    /\ failure' = None
    /\ filters' = NoFilters
    /\ before' = 0
    /\ history' = << >>

PageShown == failure = None /\ page.rows
RetryShown == failure = "error"

(* TasksView.load and AuditView.load send what the view's state is now.    *)
(* AuditView has no filters.                                               *)
TasksLoad ==
    /\ begin([filters |-> filters, before |-> before])
    /\ pageLoading' = TRUE
    /\ failure' = None

AuditLoad ==
    /\ begin([filters |-> NoFilters, before |-> before])
    /\ pageLoading' = TRUE
    /\ failure' = None

loadPage ==
    /\ IF view = "tasks" THEN TasksLoad ELSE AuditLoad
    /\ UNCHANGED <<view, page, filters, before, history>>

(* The effect on a new `load': its cleanup clears the timer and cancels,   *)
(* and the timer is set again.                                             *)
Reload ==
    /\ timer' = TRUE
    /\ cancel

(* setBefore: React runs the effect only when the cursor is another one. *)
SetBefore(cursor) ==
    /\ before' = cursor
    /\ IF cursor = before THEN UNCHANGED <<timer, request>> ELSE Reload

-----------------------------------------------------------------------------
(* Mounting runs the effect; leaving runs the cleanups, and the state goes *)
(* with the view.  Answers to its requests then change nothing.            *)
MountPages(v) ==
    /\ Mount(v)
    /\ Fresh
    /\ timer' = TRUE
    /\ active' = 0 /\ begun' = 0 /\ fetches' = {}

UnmountPages ==
    /\ Unmount(PagedViews)
    /\ Fresh
    /\ timer' = FALSE
    /\ active' = 0 /\ begun' = 0 /\ fetches' = {}

(* The window.setTimeout callback. *)
TimerFires ==
    /\ timer
    /\ timer' = FALSE
    /\ loadPage
    /\ UNCHANGED gestures

(* The refresh button, disabled while loading, and the retry button. *)
Refresh ==
    /\ Gesture
    /\ view \in PagedViews
    /\ ~pageLoading \/ RetryShown
    /\ loadPage
    /\ UNCHANGED timer

(* TasksView.applyFilters: a new object, hence a new load, every time. *)
applyFilters(f) ==
    /\ Gesture
    /\ view = "tasks"
    /\ history' = << >> /\ before' = 0 /\ filters' = f
    /\ Reload
    /\ UNCHANGED <<view, page, pageLoading, failure>>

(* Pagination: both buttons are disabled while busy. *)
NextPage ==
    /\ Gesture
    /\ PageShown /\ ~pageLoading /\ page.next # 0
    /\ Len(history) < MaxHistory
    /\ history' = Append(history, before)
    /\ SetBefore(page.next)
    /\ UNCHANGED <<view, page, pageLoading, failure, filters>>

PreviousPage ==
    /\ Gesture
    /\ PageShown /\ ~pageLoading /\ history # << >>
    /\ history' = SubSeq(history, 1, Len(history) - 1)
    /\ SetBefore(history[Len(history)])
    /\ UNCHANGED <<view, page, pageLoading, failure, filters>>

(* The continuation of load after its await, when the answer is a page.  A *)
(* next_before_id lies deeper than the cursor asked for.  The body of an   *)
(* aborted request reads as {}: its page would be no page at all.          *)
LoadAnswers(fetch) ==
    /\ fetches' = fetches \ {fetch}
    /\ \/ /\ isCurrent(fetch)
          /\ \E rows \in BOOLEAN, next \in Cursors :
                /\ next # 0 => rows /\ next > fetch.query.before
                /\ page' = [of |-> fetch.query, rows |-> rows, next |-> next]
          /\ pageLoading' = FALSE
          /\ active' = 0
       \/ /\ ~isCurrent(fetch)
          /\ UNCHANGED <<page, pageLoading, active>>
    /\ UNCHANGED <<view, gestures, failure, filters, before, history, timer, begun>>

(* ... and when it failed, was refused (403), or was aborted. *)
LoadFails(fetch) ==
    /\ fetches' = fetches \ {fetch}
    /\ \/ /\ isCurrent(fetch)
          /\ failure' \in {"error", "forbidden"}
          /\ pageLoading' = FALSE
          /\ active' = 0
       \/ /\ ~isCurrent(fetch)
          /\ UNCHANGED <<failure, pageLoading, active>>
    /\ UNCHANGED <<view, gestures, page, filters, before, history, timer, begun>>

-----------------------------------------------------------------------------
PagesInit ==
    /\ view = None
    /\ gestures = 0
    /\ page = EmptyPage /\ pageLoading = TRUE /\ failure = None
    /\ filters = NoFilters /\ before = 0 /\ history = << >>
    /\ timer = FALSE
    /\ active = 0 /\ begun = 0 /\ fetches = {}

PagesStep ==
    \/ TimerFires
    \/ Refresh
    \/ \E f \in Filters : applyFilters(f)
    \/ NextPage
    \/ PreviousPage
    \/ \E fetch \in fetches : LoadAnswers(fetch) \/ LoadFails(fetch)

PagesNext ==
    \/ \E v \in PagedViews : MountPages(v)
    \/ UnmountPages
    \/ PagesStep

PagesSpec == PagesInit /\ [][PagesNext]_pagesVars

(* The timer fires, and a request is answered or fails.  The user need     *)
(* never do anything.                                                      *)
PagesFairness ==
    /\ WF_pagesVars(TimerFires)
    /\ WF_pagesVars(\E fetch \in fetches : LoadAnswers(fetch) \/ LoadFails(fetch))

FairPagesSpec == PagesSpec /\ PagesFairness

-----------------------------------------------------------------------------
PageType == [of : Query \cup {None}, rows : BOOLEAN, next : Cursors]

PagesTypeOK ==
    /\ ViewsTypeOK
    /\ page \in PageType
    /\ pageLoading \in BOOLEAN /\ timer \in BOOLEAN
    /\ failure \in {None, "error", "forbidden"}
    /\ filters \in Filters
    /\ before \in Cursors
    /\ history \in Seq(Cursors)
    /\ active \in Nat /\ begun \in Nat
    /\ fetches \in SUBSET Fetch

(* What the view has been asked to show. *)
Wanted == [filters |-> filters, before |-> before]

(* TasksView.test.tsx, "ignores a stale refresh response after filters     *)
(* change", for every order of answers and gestures: a view that is done   *)
(* loading and reports no failure shows the answer to the filters and the  *)
(* cursor it is set to, never that of an earlier query.                    *)
PageMatchesQuery ==
    view \in PagedViews /\ ~pageLoading /\ ~timer /\ failure = None => page.of = Wanted

=============================================================================
