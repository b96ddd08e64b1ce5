------------------------------ MODULE Sessions ------------------------------
(***************************************************************************)
(* Logging in to the web page (src/src/web/auth.go, auth_handler.go,       *)
(* middleware.go, and the routes of server.go). A token is valid for two   *)
(* hours in the process that issued it; a goroutine deletes the expired    *)
(* ones every ten minutes. The password is read when a route is called, or *)
(* was when the route was registered: a reload changes only the former.    *)
(*                                                                         *)
(* The clock advances in steps of ten minutes, with one cleanup in each.   *)
(***************************************************************************)
EXTENDS Naturals

CONSTANTS
    Browsers,
    Tokens,      \* bound: the tokens that are in use at one time
    Passwords,   \* what web.password may be, "" included
    NoPassword,  \* ""
    Life,        \* tokenMaxAge
    None         \* no token, no cookie

ASSUME SessionsAssumption ==
    /\ NoPassword \in Passwords
    /\ None \notin Tokens /\ None \notin Nat
    /\ Life \in Nat \ {0}

VARIABLES
    tokens,    \* TokenStore.tokens: how long ago each was issued
    cookie,    \* the token that each browser sends
    password,  \* App.Config.Web.Password
    captured,  \* the password that the routes of the API were registered with
    due,       \* the cleanup of these ten minutes is yet to come
    issued     \* history: when each token was issued, unless it was logged out

sessionVars == <<tokens, cookie, password, captured, due, issued>>

SessionsInit ==
    /\ tokens = [t \in Tokens |-> None]
    /\ issued = [t \in Tokens |-> None]
    /\ due = FALSE
    /\ cookie = [b \in Browsers |-> None]
    /\ password \in Passwords
    /\ captured = password

\* Valid: the token exists, and its two hours are not over.
Valid(t) == t # None /\ tokens[t] # None /\ tokens[t] < Life

\* authMiddleware for a request with the cookie t.
Passes(t, pw) == pw = NoPassword \/ Valid(t)

-----------------------------------------------------------------------------
\* NewTokenStore, when a process begins to serve; what another one had is gone.
NoSessions ==
    /\ tokens' = [t \in Tokens |-> None]
    /\ issued' = [t \in Tokens |-> None]
    /\ due' = FALSE
    /\ UNCHANGED cookie

\* Register: the routes of the API keep the password as it is now.
Register ==
    /\ password' \in Passwords
    /\ captured' = password'

\* handleLogin: with the right password, a new token. Without a password set, or
\* with a wrong one, nothing changes. The token that the browser had stays valid.
Login(b) ==
    /\ password # NoPassword
    /\ \E t \in Tokens :
        /\ tokens[t] = None
        /\ \A d \in Browsers : cookie[d] # t
        /\ tokens' = [tokens EXCEPT ![t] = 0]
        /\ issued' = [issued EXCEPT ![t] = 0]
        /\ cookie' = [cookie EXCEPT ![b] = t]
    /\ UNCHANGED <<password, captured, due>>

\* Mutant of Logout: only the cookie is deleted.
LogoutOfBrowser(b) ==
    /\ cookie[b] # None
    /\ issued' = [issued EXCEPT ![cookie[b]] = None]
    /\ cookie' = [cookie EXCEPT ![b] = None]
    /\ UNCHANGED <<tokens, password, captured, due>>

\* handleLogout: Revoke, whether or not somebody is logged in.
Logout(b) ==
    /\ cookie[b] # None
    /\ tokens' = [tokens EXCEPT ![cookie[b]] = None]
    /\ issued' = [issued EXCEPT ![cookie[b]] = None]
    /\ cookie' = [cookie EXCEPT ![b] = None]
    /\ UNCHANGED <<password, captured, due>>

\* The browser drops the cookie: it is over age, or the browser is closed.
DropCookie(b) ==
    /\ cookie[b] # None
    /\ cookie' = [cookie EXCEPT ![b] = None]
    /\ UNCHANGED <<tokens, password, captured, due, issued>>

\* reloadRuntimeConfig replaces the configuration that the routes share.
ReloadPassword(p) ==
    /\ password' = p
    /\ UNCHANGED <<tokens, cookie, captured, due, issued>>

-----------------------------------------------------------------------------
Aged(age) == IF age = None \/ age > Life THEN age ELSE age + 1

\* Ten minutes pass.
SessionTick ==
    /\ ~due
    /\ due' = TRUE
    /\ tokens' = [t \in Tokens |-> Aged(tokens[t])]
    /\ issued' = [t \in Tokens |-> Aged(issued[t])]
    /\ UNCHANGED <<cookie, password, captured>>

\* cleanup: what is expired is deleted.
Cleanup ==
    /\ due
    /\ due' = FALSE
    /\ tokens' = [t \in Tokens |-> IF tokens[t] # None /\ tokens[t] > Life THEN None ELSE tokens[t]]
    /\ UNCHANGED <<cookie, password, captured, issued>>

SessionStep ==
    \/ \E b \in Browsers : Login(b) \/ Logout(b) \/ DropCookie(b)
    \/ \E p \in Passwords \ {password} : ReloadPassword(p)
    \/ SessionTick
    \/ Cleanup

-----------------------------------------------------------------------------
\* A token is good for a request exactly if this process issued it less than two
\* hours ago and nobody has logged out with it: neither the cleanup nor a reload of
\* the password cuts a session short, and nothing lengthens one. It is so for the
\* routes that read the password now and for those that have captured it.
SessionIffLogin ==
    \A t \in Tokens, pw \in {password, captured} \ {NoPassword} :
        Passes(t, pw) <=> issued[t] # None /\ issued[t] < Life

\* config.example.yaml:44: with an empty password no login is needed. Broken by a
\* reload to an empty password: the API keeps asking for a login, which handleLogin
\* then refuses.
EmptyPasswordOpens == password = NoPassword => \A b \in Browsers : Passes(cookie[b], captured)
=============================================================================
