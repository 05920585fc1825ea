--------------------------- MODULE AdminWorkspace ---------------------------
(***************************************************************************)
(* The content of the admin console: the paged views and the records view, *)
(* one of them mounted at a time (AdminRoutes of App.tsx).  A view that is *)
(* left takes its state with it; what it asked of the server goes on.      *)
(***************************************************************************)
EXTENDS AdminPages, AdminRecords

workspaceVars == <<view, gestures, pageState, timer, request, recordsState>>

Pages == <<pageState, timer, request>>

Init == PagesInit /\ RecordsInit

Next ==
    \/ \E v \in PagedViews : MountPages(v) /\ UNCHANGED recordsState
    \/ UnmountPages /\ UNCHANGED recordsState
    \/ PagesStep /\ UNCHANGED recordsState
    \/ MountRecords /\ UNCHANGED Pages
    \/ UnmountRecords /\ UNCHANGED Pages
    \/ RecordsStep /\ UNCHANGED Pages

Spec == Init /\ [][Next]_workspaceVars

(* Timers fire, and a request is answered or fails.  The user and the      *)
(* other users of the records need never do anything.                      *)
Fairness ==
    /\ WF_workspaceVars(TimerFires /\ UNCHANGED recordsState)
    /\ WF_workspaceVars((\E f \in fetches : LoadAnswers(f) \/ LoadFails(f)) /\ UNCHANGED recordsState)
    /\ WF_workspaceVars(ListStep /\ UNCHANGED Pages)
    /\ WF_workspaceVars(ChangeStep /\ UNCHANGED Pages)
    /\ WF_workspaceVars((\E n \in toasts : dismiss(n)) /\ UNCHANGED Pages)

FairSpec == Spec /\ Fairness

-----------------------------------------------------------------------------
TypeOK == PagesTypeOK /\ RecordsTypeOK

Waiting ==
    \/ view \in PagedViews /\ (pageLoading \/ timer)
    \/ view = "records" /\ (loading \/ busy)

(* The spinners go: a load, also one that took the place of a cancelled    *)
(* one, ends with a page or a failure, and a change ends with the form     *)
(* usable again, whatever else is under way.                               *)
LoadsSettle == Waiting ~> ~Waiting
=============================================================================
