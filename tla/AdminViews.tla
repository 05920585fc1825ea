----------------------------- MODULE AdminViews -----------------------------
(***************************************************************************)
(* What the views of the generated admin console (web/src) have in common: *)
(* the router of App.tsx mounts one at a time, and a user acts on the one  *)
(* that is mounted.                                                        *)
(***************************************************************************)
EXTENDS Naturals

CONSTANTS
    MaxGestures,    \* bound on what the user does
    None

Views == {"records", "tasks", "audit"}

ASSUME ViewsAssumption == MaxGestures \in Nat /\ None \notin Views

VARIABLES
    view,           \* the view on screen, None for one without state
    gestures        \* what the user has done

ViewsTypeOK ==
    /\ view \in Views \cup {None}
    /\ gestures \in 0..MaxGestures

Gesture ==
    /\ gestures < MaxGestures
    /\ gestures' = gestures + 1

(* Following a link of the navigation mounts a view. *)
Mount(v) ==
    /\ Gesture
    /\ view = None
    /\ view' = v

(* Following another link, or the end of the session, unmounts it. *)
Unmount(views) ==
    /\ view \in views
    /\ view' = None
    /\ UNCHANGED gestures
=============================================================================
