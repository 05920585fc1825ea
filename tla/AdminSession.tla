---------------------------- MODULE AdminSession ----------------------------
(***************************************************************************)
(* Signing in and out of the generated admin console: the API client       *)
(* (api/client.ts), AppProvider and AuthProvider (stores), the screens of  *)
(* App.tsx and LoginView.tsx, and the session endpoints behind them        *)
(* (transport/sessionhttp).                                                *)
(*                                                                         *)
(* The session is in three places: the server's store, the browser's       *)
(* cookie, which only answers change, and the client's state, whose CSRF   *)
(* token is a module variable that every request reads.  Requests are      *)
(* served and answered in any order, sessions expire, and an answer that   *)
(* says 401 can arrive when its session is long replaced.                  *)
(*                                                                         *)
(* A session is a number, 0 for none; it stands for the cookie's token,    *)
(* the CSRF token and the actor of the session.  The browser has one tab.  *)
(***************************************************************************)
EXTENDS Naturals

CONSTANTS
    MaxSessions,    \* bound on the sessions created
    MaxAttempts,    \* bound on the calls of initialize
    MaxViewRequests,\* bound on the requests the views send
    None

ASSUME SessionAssumption ==
    MaxSessions \in Nat \ {0} /\ MaxAttempts \in Nat \ {0} /\ MaxViewRequests \in Nat

VARIABLES
    live,           \* server: sessions that resolve
    made,           \* ... of those created
    cookie,         \* browser
    csrfToken,      \* api/client.ts
    meta,           \* AppProvider's loadPromise
    actor,          \* AuthProvider ...
    admin,          \* ... modules and grants: the session they are those of
    initialized,
    initializationError,
    busy,
    initializing,   \* ... how far initializePromise has come
    found,          \* ... and what its session request resolved to
    accepting,      \* the session passed to accept, while it awaits
    attempts,       \* calls of initialize
    viewRequests,   \* requests of the views
    requests,       \* in flight
    struck          \* history: since the cookie was last set, a 401 has
                    \* answered a request sent with an older one

serverVars == <<live, made>>
authVars == <<actor, admin, initialized, initializationError, busy, initializing, found, accepting>>
sessionVars == <<serverVars, cookie, csrfToken, meta, authVars, attempts, viewRequests, requests, struck>>

Sessions == 1..MaxSessions
Pending == "pending"
Kinds == {"meta", "session", "context", "login", "logout", "view"}

(* The screens of SessionBoundary, LoginRoute and RequireAuth. *)
Screen ==
    CASE ~initialized -> "loading"
      [] initialized /\ initializationError -> "unavailable"
      [] initialized /\ ~initializationError /\ actor = 0 -> "login"
      [] OTHER -> "console"

-----------------------------------------------------------------------------
(* fetch, from api: the browser adds the cookie, and the client its token  *)
(* to what is not a GET.                                                   *)
Request(kind, n) ==
    [kind |-> kind, n |-> n, cookie |-> cookie, token |-> IF kind \in {"login", "logout"} THEN csrfToken ELSE 0,
     status |-> None, session |-> 0]

(* AuthProvider.expire. *)
expire ==
    /\ actor' = 0 /\ admin' = 0
    /\ csrfToken' = 0

-----------------------------------------------------------------------------
(* sessionhttp.  A request is served, and the answer is on its way: its    *)
(* status, the session it tells of, and with 401 whether the cookie is     *)
(* cleared.  A request can also fail at any time (see Lost).               *)

Answer(r, status, session) ==
    requests' = (requests \ {r}) \cup {[r EXCEPT !.status = status, !.session = session]}

authenticate(r) == r.cookie \in live
Refuse(r) == Answer(r, "401", 0)

ServeMeta(r) ==
    /\ r.kind = "meta"
    /\ Answer(r, "200", 0)
    /\ UNCHANGED serverVars

ServeProtected(r) ==
    /\ r.kind \in {"session", "context", "view"}
    /\ IF authenticate(r) THEN Answer(r, "200", r.cookie) ELSE Refuse(r)
    /\ UNCHANGED serverVars

(* The password is right, or it is not. *)
ServeLogin(r) ==
    /\ r.kind = "login"
    /\ \/ /\ made < MaxSessions
          /\ made' = made + 1
          /\ live' = live \cup {made + 1}
          /\ Answer(r, "200", made + 1)
       \/ Refuse(r) /\ UNCHANGED serverVars

ServeLogout(r) ==
    /\ r.kind = "logout"
    /\ IF ~authenticate(r) THEN Refuse(r) /\ UNCHANGED live
       ELSE IF r.token # r.cookie THEN Answer(r, "403", 0) /\ UNCHANGED live
       ELSE Answer(r, "204", 0) /\ live' = live \ {r.cookie}
    /\ UNCHANGED made

Serve(r) ==
    /\ r.status = None
    /\ ServeMeta(r) \/ ServeProtected(r) \/ ServeLogin(r) \/ ServeLogout(r)
    /\ UNCHANGED <<cookie, csrfToken, meta, authVars, attempts, viewRequests, struck>>

(* A session passes its expiry, or is revoked by an administrator. *)
SessionEnds ==
    /\ \E s \in live : live' = live \ {s}
    /\ UNCHANGED <<made, cookie, csrfToken, meta, authVars, attempts, viewRequests, requests, struck>>

-----------------------------------------------------------------------------
(* The browser's part of an answer: Set-Cookie.  An invalid session is     *)
(* cleared from the cookie whichever session the cookie holds by then.     *)

Clears(r) == r.status = "204" \/ (r.status = "401" /\ r.kind # "login" /\ r.cookie # 0)
Late(r) == r.status = "401" /\ r.kind # "login" /\ r.cookie # cookie
Sets(r) == r.kind = "login" /\ r.status = "200"

SetCookie(r) ==
    /\ cookie' = IF Sets(r) THEN r.session ELSE IF Clears(r) THEN 0 ELSE cookie
    /\ struck' = IF Sets(r) THEN FALSE ELSE struck \/ Late(r)

(* api: a 401 calls the handler, except at sign-in. *)
ExpiresClient(r) == r.status = "401" /\ r.kind \notin {"login", "session"}

-----------------------------------------------------------------------------
(* AuthProvider.initialize: application metadata and session at once.  A   *)
(* metadata request that is under way or done is not repeated.             *)
initialize ==
    /\ initializing = None
    /\ attempts < MaxAttempts
    /\ attempts' = attempts + 1
    /\ initialized' = FALSE /\ initializationError' = FALSE
    /\ initializing' = "joining" /\ found' = None
    /\ requests' = requests \cup {Request("session", attempts + 1)}
                            \cup (IF meta = None THEN {Request("meta", 0)} ELSE {})
    /\ meta' = IF meta = None THEN Pending ELSE meta
    /\ UNCHANGED <<serverVars, cookie, csrfToken, actor, admin, busy, accepting, viewRequests, struck>>

(* SessionBoundary's effect, which StrictMode runs twice, and its button.  *)
Start == attempts = 0 /\ initialize
Retry == Screen = "unavailable" /\ initialize

(* The catch and finally of initialize. *)
InitializeFails ==
    /\ expire
    /\ initializationError' = TRUE
    /\ initialized' = TRUE
    /\ initializing' = None /\ found' = None /\ accepting' = 0
    /\ UNCHANGED busy

(* Both have resolved: nobody is signed in, or accept is called. *)
Joined(s, others) ==
    IF s = 0
    THEN /\ initialized' = TRUE
         /\ initializing' = None /\ found' = None
         /\ requests' = others
         /\ UNCHANGED <<csrfToken, actor, admin, initializationError, busy, accepting>>
    ELSE /\ csrfToken' = s
         /\ accepting' = s
         /\ initializing' = "accepting" /\ found' = None
         /\ requests' = others \cup {Request("context", 0)}
         /\ UNCHANGED <<actor, admin, initialized, initializationError, busy>>

MetaAnswers(r) ==
    /\ r.kind = "meta" /\ r.status = "200"
    /\ meta' = "done"
    /\ IF initializing = "joining" /\ found # None
       THEN Joined(found, requests \ {r})
       ELSE requests' = requests \ {r} /\ UNCHANGED <<csrfToken, authVars>>

MetaFails(r) ==
    /\ r.kind = "meta" /\ r.status = "lost"
    /\ meta' = None
    /\ requests' = requests \ {r}
    /\ IF initializing = "joining" THEN InitializeFails ELSE UNCHANGED <<csrfToken, authVars>>

(* The session request of an attempt that has failed resolves for nobody. *)
SessionAnswers(r) ==
    /\ r.kind = "session"
    /\ IF initializing # "joining" \/ r.n # attempts
       THEN requests' = requests \ {r} /\ UNCHANGED <<csrfToken, authVars>>
       ELSE IF r.status = "lost"
       THEN requests' = requests \ {r} /\ InitializeFails
       ELSE IF meta = "done"
       THEN Joined(r.session, requests \ {r})
       ELSE /\ found' = r.session
            /\ requests' = requests \ {r}
            /\ UNCHANGED <<csrfToken, actor, admin, initialized, initializationError, busy, initializing, accepting>>
    /\ UNCHANGED meta

-----------------------------------------------------------------------------
(* LoginView.submit and AuthProvider.login, up to the await of login. *)
login ==
    /\ Screen = "login" /\ ~busy
    /\ busy' = TRUE
    /\ requests' = requests \cup {Request("login", 0)}
    /\ UNCHANGED <<serverVars, cookie, csrfToken, meta, actor, admin, initialized, initializationError,
                   initializing, found, accepting, attempts, viewRequests, struck>>

(* accept, up to the await of the context. *)
LoginAnswers(r) ==
    /\ r.kind = "login"
    /\ IF r.status = "200"
       THEN /\ csrfToken' = r.session
            /\ accepting' = r.session
            /\ requests' = (requests \ {r}) \cup {[Request("context", 0) EXCEPT !.cookie = r.session]}
            /\ UNCHANGED busy
       ELSE /\ busy' = FALSE
            /\ requests' = requests \ {r}
            /\ UNCHANGED <<csrfToken, accepting>>
    /\ UNCHANGED <<meta, actor, admin, initialized, initializationError, initializing, found>>

(* The rest of accept, and of initialize or login. *)
ContextAnswers(r) ==
    /\ r.kind = "context" /\ r.status = "200"
    /\ requests' = requests \ {r}
    /\ actor' = accepting /\ admin' = r.session
    /\ accepting' = 0
    /\ initialized' = TRUE /\ initializing' = None /\ busy' = FALSE
    /\ UNCHANGED <<csrfToken, meta, initializationError, found>>

(* Mutant: a sign-in that fails keeps the token of the session. *)
ContextFailsKeepingToken(r) ==
    /\ r.kind = "context" /\ r.status # "200"
    /\ requests' = requests \ {r}
    /\ IF initializing = "accepting" THEN InitializeFails
       ELSE /\ busy' = FALSE /\ accepting' = 0
            /\ actor' = IF ExpiresClient(r) THEN 0 ELSE actor
            /\ admin' = IF ExpiresClient(r) THEN 0 ELSE admin
            /\ UNCHANGED <<csrfToken, initialized, initializationError, initializing, found>>
    /\ UNCHANGED meta

ContextFails(r) ==
    /\ r.kind = "context" /\ r.status # "200"
    /\ requests' = requests \ {r}
    /\ IF initializing = "accepting" THEN InitializeFails
       ELSE /\ busy' = FALSE /\ accepting' = 0
            /\ csrfToken' = 0
            /\ actor' = IF ExpiresClient(r) THEN 0 ELSE actor
            /\ admin' = IF ExpiresClient(r) THEN 0 ELSE admin
            /\ UNCHANGED <<initialized, initializationError, initializing, found>>
    /\ UNCHANGED meta

-----------------------------------------------------------------------------
(* AppShell.logout and AuthProvider.logout. *)
logout ==
    /\ Screen = "console" /\ ~busy
    /\ busy' = TRUE
    /\ requests' = requests \cup {Request("logout", 0)}
    /\ UNCHANGED <<serverVars, cookie, csrfToken, meta, actor, admin, initialized, initializationError,
                   initializing, found, accepting, attempts, viewRequests, struck>>

(* Mutant: the form is released by success only. *)
LogoutAnswersBusy(r) ==
    /\ r.kind = "logout"
    /\ requests' = requests \ {r}
    /\ IF r.status = "204" \/ ExpiresClient(r) THEN expire /\ busy' = FALSE
       ELSE UNCHANGED <<actor, admin, csrfToken, busy>>
    /\ UNCHANGED <<meta, initialized, initializationError, initializing, found, accepting>>

LogoutAnswers(r) ==
    /\ r.kind = "logout"
    /\ requests' = requests \ {r}
    /\ IF r.status = "204" \/ ExpiresClient(r) THEN expire ELSE UNCHANGED <<actor, admin, csrfToken>>
    /\ busy' = FALSE
    /\ UNCHANGED <<meta, initialized, initializationError, initializing, found, accepting>>

(* A view of the console asks for something ... *)
ViewRequest ==
    /\ Screen = "console"
    /\ viewRequests < MaxViewRequests
    /\ viewRequests' = viewRequests + 1
    /\ requests' = requests \cup {Request("view", viewRequests + 1)}
    /\ UNCHANGED <<serverVars, cookie, csrfToken, meta, authVars, attempts, struck>>

(* ... and is answered, perhaps when nobody is signed in, or somebody else. *)
ViewAnswers(r) ==
    /\ r.kind = "view"
    /\ requests' = requests \ {r}
    /\ IF ExpiresClient(r) THEN expire ELSE UNCHANGED <<actor, admin, csrfToken>>
    /\ UNCHANGED <<meta, initialized, initializationError, busy, initializing, found, accepting>>

Deliver(r) ==
    /\ r.status # None
    /\ SetCookie(r)
    /\ \/ MetaAnswers(r) \/ MetaFails(r) \/ SessionAnswers(r) \/ LoginAnswers(r)
       \/ ContextAnswers(r) \/ ContextFails(r) \/ LogoutAnswers(r) \/ ViewAnswers(r)
    /\ UNCHANGED <<serverVars, attempts, viewRequests>>

(* The request, or the answer to it, is lost; or the server fails. *)
Lose(r) ==
    /\ r.status # "lost"
    /\ Answer(r, "lost", 0)
    /\ UNCHANGED <<serverVars, cookie, csrfToken, meta, authVars, attempts, viewRequests, struck>>

-----------------------------------------------------------------------------
(* The page is opened with no cookie, or with one that resolves or has     *)
(* expired.                                                                *)
SessionInit ==
    /\ made \in {0, 1} /\ cookie = made /\ live \in SUBSET (1..made)
    /\ csrfToken = 0 /\ meta = None
    /\ actor = 0 /\ admin = 0
    /\ initialized = FALSE /\ initializationError = FALSE /\ busy = FALSE
    /\ initializing = None /\ found = None /\ accepting = 0
    /\ attempts = 0 /\ viewRequests = 0
    /\ requests = {}
    /\ struck = FALSE

Exchange(kind) == \E r \in requests : r.kind = kind /\ (Serve(r) \/ Deliver(r))

SessionNext ==
    \/ Start \/ Retry
    \/ login \/ logout
    \/ ViewRequest
    \/ \E kind \in Kinds : Exchange(kind)
    \/ \E r \in requests : Lose(r)
    \/ SessionEnds

SessionSpec == SessionInit /\ [][SessionNext]_sessionVars

(* The page's first effect runs, and requests are served and answered.     *)
SessionFairness ==
    /\ WF_sessionVars(Start)
    /\ \A kind \in Kinds : WF_sessionVars(Exchange(kind))

FairSessionSpec == SessionSpec /\ SessionFairness

-----------------------------------------------------------------------------
RequestType ==
    [kind : Kinds, n : Nat, cookie : Sessions \cup {0}, token : Sessions \cup {0},
     status : {None, "200", "204", "401", "403", "lost"}, session : Sessions \cup {0}]

SessionTypeOK ==
    /\ made \in 0..MaxSessions /\ live \in SUBSET Sessions
    /\ {cookie, csrfToken, actor, admin, accepting} \subseteq Sessions \cup {0}
    /\ meta \in {None, Pending, "done"}
    /\ {initialized, initializationError, busy, struck} \subseteq BOOLEAN
    /\ initializing \in {None, "joining", "accepting"}
    /\ found = None \/ found \in Sessions \cup {0}
    /\ attempts \in 0..MaxAttempts /\ viewRequests \in 0..MaxViewRequests
    /\ requests \in SUBSET RequestType

(* Who is signed in is so in all places: the console works with the        *)
(* modules and grants, the CSRF token and the cookie of the actor's own    *)
(* session, until the server has ended it, and a token without an actor    *)
(* belongs to a sign-in under way.                                         *)
(* The exception the code leaves open is the late answer: a 401 to a       *)
(* request of an older session clears the new session's cookie, and while  *)
(* accept awaits, also its token; the next request then ends the session.  *)
SignedInThroughout ==
    /\ actor # 0 => admin = actor
    /\ actor # 0 /\ ~struck => csrfToken = actor /\ (cookie = actor \/ actor \notin live)
    /\ csrfToken # 0 => csrfToken \in {actor, accepting}

(* The loading screen goes, and so does "signing in": whatever is lost or  *)
(* refused, initialize, login and logout come to an end.                   *)
AuthSettles == (~initialized \/ busy) ~> (initialized /\ ~busy)
=============================================================================
