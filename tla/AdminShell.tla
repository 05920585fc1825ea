----------------------------- MODULE AdminShell -----------------------------
(***************************************************************************)
(* AppShell.tsx of the generated admin console: the sidebar, which on a    *)
(* narrow viewport is a modal menu.  While it is open the rest is inert,   *)
(* the page behind it does not scroll, and the keyboard stays inside.      *)
(*                                                                         *)
(* The focus is moved in effects and, when the menu closes, in animation   *)
(* frames; a frame that has been requested runs some time later, when the  *)
(* menu may be open again, the viewport wide or the shell unmounted.       *)
(*                                                                         *)
(* A step is an event with the render and the effects it causes.           *)
(***************************************************************************)
EXTENDS Naturals

CONSTANT MaxEvents      \* bound on the user's events

ASSUME ShellAssumption == MaxEvents \in Nat

VARIABLES
    mounted,            \* the router shows the shell
    narrow,             \* the media query matches
    mobileViewport,     \* AppShell's state
    mobileOpen,
    overflow,           \* document.body.style.overflow
    locked,             \* the scroll effect is to be undone
    focus,              \* document.activeElement
    menuFrame,          \* requested animation frames
    pageFrame,
    events

shellState == <<mounted, narrow, mobileViewport, mobileOpen, overflow, locked, focus, menuFrame, pageFrame>>
shellVars == <<shellState, events>>

(* The sidebar's first and last focusable element, the ones between them,  *)
(* the header's menu button, the page, and nothing.                        *)
Sidebar == {"first", "between", "last"}
Places == Sidebar \cup {"menu", "page", "body"}

MenuOpen == mounted /\ mobileViewport /\ mobileOpen

Event ==
    /\ events < MaxEvents
    /\ events' = events + 1

-----------------------------------------------------------------------------
(* Effects. *)

(* The effect on [mobileOpen, mobileViewport]: its cleanup, then its body. *)
ScrollEffect(open, mobile) ==
    /\ locked' = (open /\ mobile)
    /\ overflow' = IF open /\ mobile THEN "hidden" ELSE IF locked THEN "" ELSE overflow

(* Mutant: the page behind an open menu stays in reach. *)
InertSidebar(place, open, mobile) == mobile /\ ~open /\ place \in Sidebar

(* The inert attributes: the header and the page behind an open menu, the  *)
(* sidebar when it is a closed one.                                        *)
Inert(place, open, mobile) ==
    mobile /\ IF open THEN place \in {"menu", "page"} ELSE place \in Sidebar

(* What a render makes inert loses the focus ... *)
Blurred(place, open, mobile) == IF Inert(place, open, mobile) THEN "body" ELSE place

(* ... and what is inert does not take it, nor the menu button when it is  *)
(* not displayed.                                                          *)
Focused(place) ==
    IF Inert(place, mobileOpen, mobileViewport) \/ (place = "menu" /\ ~mobileViewport) THEN focus ELSE place

Render(open, mobile, place) ==
    /\ mobileOpen' = open
    /\ mobileViewport' = mobile
    /\ ScrollEffect(open, mobile)
    /\ focus' = Blurred(place, open, mobile)

-----------------------------------------------------------------------------
(* The router mounts the shell (the first effect reads the media query)    *)
(* and unmounts it: a session that ends does so at any moment.             *)
MountShell ==
    /\ mounted' = TRUE
    /\ Render(FALSE, narrow, focus)
    /\ UNCHANGED <<narrow, menuFrame, pageFrame>>

UnmountShell ==
    /\ mounted' = FALSE
    /\ mobileOpen' = FALSE /\ mobileViewport' = FALSE
    /\ ScrollEffect(FALSE, FALSE)
    /\ focus' = "body"
    /\ menuFrame' = FALSE /\ pageFrame' = FALSE
    /\ UNCHANGED narrow

(* sync: the viewport has become wide or narrow. *)
Resize ==
    /\ Event
    /\ narrow' = ~narrow
    /\ IF mounted
       THEN Render(mobileOpen /\ ~narrow, ~narrow, focus)
       ELSE UNCHANGED <<mobileOpen, mobileViewport, locked, overflow, focus>>
    /\ UNCHANGED <<mounted, menuFrame, pageFrame>>

(* The menu button, which only a narrow viewport shows. *)
OpenMenu ==
    /\ Event
    /\ mounted /\ mobileViewport /\ ~mobileOpen
    /\ Render(TRUE, mobileViewport, "first")
    /\ UNCHANGED <<mounted, narrow, menuFrame, pageFrame>>

(* closeMobileNavigation(true), from the scrim, the close button and       *)
(* Escape in the sidebar, which need not be a menu.                        *)
closeMobileNavigation ==
    /\ Event
    /\ mounted /\ (mobileOpen \/ focus \in Sidebar)
    /\ Render(FALSE, mobileViewport, focus)
    /\ menuFrame' = TRUE
    /\ UNCHANGED <<mounted, narrow, pageFrame>>

(* closeAfterSelection, from a link. *)
closeAfterSelection ==
    /\ Event
    /\ mounted /\ (mobileViewport => mobileOpen)
    /\ IF mobileViewport
       THEN Render(FALSE, TRUE, "between") /\ pageFrame' = TRUE
       ELSE focus' = "between" /\ UNCHANGED <<mobileViewport, mobileOpen, overflow, locked, pageFrame>>
    /\ UNCHANGED <<mounted, narrow, menuFrame>>

(* handleSidebarKeyDown: Tab goes round in the menu.  From the elements    *)
(* between, and in a sidebar that is no menu, it goes where the browser    *)
(* takes it.                                                               *)
Tab ==
    /\ Event
    /\ mounted /\ focus \in Sidebar
    /\ \/ MenuOpen /\ focus = "first" /\ focus' \in {"last", "between"}
       \/ MenuOpen /\ focus = "last" /\ focus' \in {"first", "between"}
       \/ MenuOpen /\ focus = "between" /\ focus' \in Sidebar
       \/ ~MenuOpen /\ focus' \in Sidebar \cup {"page", "body"}
    /\ UNCHANGED <<mounted, narrow, mobileViewport, mobileOpen, overflow, locked, menuFrame, pageFrame>>

(* A click on the page, which an open menu covers. *)
ClickPage ==
    /\ Event
    /\ mounted /\ ~MenuOpen
    /\ focus' = "page"
    /\ UNCHANGED <<mounted, narrow, mobileViewport, mobileOpen, overflow, locked, menuFrame, pageFrame>>

(* A click in the sidebar beside its links and buttons. *)
ClickSidebar ==
    /\ Event
    /\ mounted /\ (mobileViewport => mobileOpen)
    /\ focus' = "body"
    /\ UNCHANGED <<mounted, narrow, mobileViewport, mobileOpen, overflow, locked, menuFrame, pageFrame>>

(* The animation frames. *)
MenuFrame ==
    /\ menuFrame
    /\ menuFrame' = FALSE
    /\ focus' = Focused("menu")
    /\ UNCHANGED <<mounted, narrow, mobileViewport, mobileOpen, overflow, locked, pageFrame, events>>

PageFrame ==
    /\ pageFrame
    /\ pageFrame' = FALSE
    /\ focus' = Focused("page")
    /\ UNCHANGED <<mounted, narrow, mobileViewport, mobileOpen, overflow, locked, menuFrame, events>>

-----------------------------------------------------------------------------
ShellInit ==
    /\ mounted = FALSE
    /\ narrow \in BOOLEAN
    /\ mobileViewport = FALSE /\ mobileOpen = FALSE
    /\ overflow = "" /\ locked = FALSE
    /\ focus = "body"
    /\ menuFrame = FALSE /\ pageFrame = FALSE
    /\ events = 0

ShellStep ==
    \/ Resize
    \/ OpenMenu
    \/ closeMobileNavigation
    \/ closeAfterSelection
    \/ Tab
    \/ ClickPage
    \/ ClickSidebar
    \/ MenuFrame
    \/ PageFrame

-----------------------------------------------------------------------------
ShellTypeOK ==
    /\ {mounted, narrow, mobileViewport, mobileOpen, locked, menuFrame, pageFrame} \subseteq BOOLEAN
    /\ overflow \in {"", "hidden"}
    /\ focus \in Places
    /\ events \in 0..MaxEvents

(* The menu is modal exactly while it is open: the page behind it is       *)
(* locked then and at no other time, not after a resize nor after the end  *)
(* of the session has taken the shell away, and the keyboard is never in   *)
(* what lies behind, whichever frames of an earlier close are still to run.*)
MenuIsModal ==
    /\ overflow = IF MenuOpen THEN "hidden" ELSE ""
    /\ MenuOpen => focus \notin {"menu", "page"}
=============================================================================
