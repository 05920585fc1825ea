------------------------------ MODULE AdminApp ------------------------------
(***************************************************************************)
(* The admin console around its views: sessions and the shell together.    *)
(* RequireAuth shows the shell while somebody is signed in, so an answer   *)
(* to any request can mount or unmount it.                                 *)
(***************************************************************************)
EXTENDS AdminSession, AdminShell

vars == <<sessionVars, shellVars>>

Init == SessionInit /\ ShellInit

(* The router, in the render that follows a change of the session. *)
Route ==
    /\ UNCHANGED events
    /\ CASE Screen' = "console" /\ ~mounted -> MountShell
         [] Screen' # "console" /\ mounted -> UnmountShell
         [] OTHER -> UNCHANGED shellState

(* The shell's sign-out button is in the sidebar. *)
Logout ==
    /\ mobileViewport => mobileOpen
    /\ logout

(* Only an answer changes the screen between console and another. *)
Next ==
    \/ Start /\ UNCHANGED shellVars
    \/ Retry /\ UNCHANGED shellVars
    \/ login /\ UNCHANGED shellVars
    \/ Logout /\ UNCHANGED shellVars
    \/ ViewRequest /\ UNCHANGED shellVars
    \/ SessionEnds /\ UNCHANGED shellVars
    \/ (\E r \in requests : Lose(r)) /\ UNCHANGED shellVars
    \/ \E kind \in Kinds : Exchange(kind) /\ Route
    \/ ShellStep /\ UNCHANGED sessionVars

Spec == Init /\ [][Next]_vars

(* The page's first effect runs, requests are served and answered.  The    *)
(* user need never do anything.                                            *)
Fairness ==
    /\ WF_vars(Start /\ UNCHANGED shellVars)
    /\ \A kind \in Kinds : WF_vars(Exchange(kind) /\ Route)

FairSpec == Spec /\ Fairness

TypeOK == SessionTypeOK /\ ShellTypeOK
=============================================================================
