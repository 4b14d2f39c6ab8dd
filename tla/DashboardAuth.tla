--------------------------- MODULE DashboardAuth ---------------------------
(***************************************************************************)
(* The dashboard's password and its browser sessions (main.py, the         *)
(* authentication part of database.py).                                    *)
(*                                                                         *)
(* A request passes the middleware, which looks its session up, and later  *)
(* its handler runs; other requests are handled in between.  A handler     *)
(* never waits, so no other handler runs inside it, but each of its        *)
(* database calls is a transaction of its own and the handler can stop     *)
(* after any of them: the database stays locked, or the process is killed. *)
(*                                                                         *)
(* Abstractions.  A password is its generation, 0 when none is set; tokens *)
(* are numbered as they are issued, and so order the rows as their rowid   *)
(* does.  Names, addresses and the last-seen time of a        *)
(* session are left out: only pages show them.  A browser sends one        *)
(* request at a time.                                                      *)
(***************************************************************************)
EXTENDS Integers, FiniteSets

CONSTANTS Browsers,
          SessionLimit,  \* AUTH_SESSION_LIMIT
          Lifetime,      \* AUTH_SESSION_LIFETIME_DAYS
          MaxTime, MaxTokens, MaxPasswords  \* bounds

ASSUME AuthAssumption ==
    /\ SessionLimit \in Nat \ {0}
    /\ Lifetime \in Nat \ {0}
    /\ MaxTime \in Nat /\ MaxTokens \in Nat /\ MaxPasswords \in Nat \ {0}

NoToken  == 0
Session  == [token : Nat, expires : Nat, password : Nat]
Public   == {"setup", "login"}
Guarded  == {"logout", "password", "list", "revoke", "logout_all"}
NoRequest == "none"

VARIABLES
    clock,
    password,  \* the row of authentication
    sessions,  \* the rows of auth_sessions; password is history: the one of
               \* the sign-in
    issued,    \* tokens made so far
    cookie,    \* browser -> its token
    request,   \* browser -> its admitted request
    cut        \* history: the last password change stopped after the password

vars == <<clock, password, sessions, issued, cookie, request, cut>>

Init ==
    /\ clock = 0
    /\ password = 0
    /\ sessions = {}
    /\ issued = 0
    /\ cookie = [b \in Browsers |-> NoToken]
    /\ request = [b \in Browsers |-> NoRequest]
    /\ cut = FALSE

Alive(s) == s.expires > clock

\* auth_session
ValidToken(t) == \E s \in sessions : s.token = t /\ Alive(s)

Newer(S, s) == {t \in S : t.token > s.token}

\* Mutant: the newest row is left out of the count.
TrimmedLate(S) == {s \in S : Cardinality(Newer(S, s)) <= SessionLimit}

\* Mutant: the rows are counted from the oldest.
TrimmedFromOldest(S) ==
    {s \in S : Cardinality(S \ Newer(S, s)) <= SessionLimit}

\* The newest SessionLimit rows.
Trimmed(S) == {s \in S : Cardinality(Newer(S, s)) < SessionLimit}

\* create_auth_session on the rows S, for a sign-in with password p.
WithNewSession(S, p) ==
    Trimmed({s \in S : Alive(s)}
              \cup {[token |-> issued + 1, expires |-> clock + Lifetime,
                     password |-> p]})

----------------------------------------------------------------------------
Tick ==
    /\ clock < MaxTime
    /\ clock' = clock + 1
    /\ UNCHANGED <<password, sessions, issued, cookie, request, cut>>

\* protect_dashboard lets a request through to its handler; a refused one
\* changes nothing.
Admit(b, kind) ==
    /\ request[b] = NoRequest
    /\ kind \in Guarded => password # 0 /\ ValidToken(cookie[b])
    /\ request' = [request EXCEPT ![b] = kind]
    /\ UNCHANGED <<clock, password, sessions, issued, cookie, cut>>

\* The handler of b's request runs.
Handles(b, kind) ==
    /\ request[b] = kind
    /\ request' = [request EXCEPT ![b] = NoRequest]
    /\ UNCHANGED clock

\* The answer sets b's cookie, unless it is lost: the audit entry that is
\* written before it fails, or the connection breaks.
Answer(b, t) == cookie' \in {cookie, [cookie EXCEPT ![b] = t]}

\* session_response: S are the rows it finds.
SignIn(b, S, p) ==
    /\ issued < MaxTokens
    /\ issued' = issued + 1
    /\ sessions' = WithNewSession(S, p)
    /\ Answer(b, issued + 1)

\* Mutant: the row is replaced when there is one.
SetupReplacing(b) ==
    /\ Handles(b, "setup")
    /\ password < MaxPasswords
    /\ password' = password + 1
    /\ SignIn(b, sessions, password')
    /\ UNCHANGED cut

\* initialize_password is INSERT OR IGNORE: 409 for all but the first.
Setup(b) ==
    /\ Handles(b, "setup")
    /\ IF password = 0
       THEN password' = 1 /\ SignIn(b, sessions, 1)
       ELSE UNCHANGED <<password, sessions, issued, cookie>>
    /\ UNCHANGED cut

\* A wrong password, or none set yet, changes nothing.
Login(b) ==
    /\ Handles(b, "login")
    /\ \/ password # 0 /\ SignIn(b, sessions, password)
       \/ UNCHANGED <<sessions, issued, cookie>>
    /\ UNCHANGED <<password, cut>>

Logout(b) ==
    /\ Handles(b, "logout")
    /\ sessions' = {s \in sessions : s.token # cookie[b]}
    /\ Answer(b, NoToken)
    /\ UNCHANGED <<password, issued, cut>>

\* Mutant: the other sessions are kept.
ChangePasswordOnly(b) ==
    /\ Handles(b, "password")
    /\ password \in 1 .. MaxPasswords - 1
    /\ password' = password + 1
    /\ SignIn(b, sessions, password')
    /\ cut' = FALSE

\* update_password with the right current password: change_password,
\* revoke_all_auth_sessions, create_auth_session.
ChangePassword(b) ==
    /\ Handles(b, "password")
    /\ password \in 1 .. MaxPasswords - 1
    /\ password' = password + 1
    /\ SignIn(b, {}, password')
    /\ cut' = FALSE

\* The handler of a change or a setup stops between its transactions.
ChangePasswordStops(b) ==
    /\ Handles(b, "password")
    /\ password \in 1 .. MaxPasswords - 1
    /\ password' = password + 1
    /\ \/ sessions' = {} /\ cut' = FALSE
       \/ UNCHANGED sessions /\ cut' = TRUE
    /\ UNCHANGED <<issued, cookie>>

SetupStops(b) ==
    /\ Handles(b, "setup")
    /\ password = 0
    /\ password' = 1
    /\ UNCHANGED <<sessions, issued, cookie, cut>>

\* list_auth_sessions deletes what has expired.
List(b) ==
    /\ Handles(b, "list")
    /\ sessions' = {s \in sessions : Alive(s)}
    /\ UNCHANGED <<password, issued, cookie, cut>>

\* delete_auth_session: lists first; of any session of that list.
Revoke(b) ==
    /\ Handles(b, "revoke")
    /\ LET listed == {s \in sessions : Alive(s)}
       IN  \/ sessions' = listed /\ UNCHANGED cookie
           \/ \E s \in listed :
                /\ sessions' = listed \ {s}
                /\ IF s.token = cookie[b] THEN Answer(b, NoToken)
                   ELSE UNCHANGED cookie
    /\ UNCHANGED <<password, issued, cut>>

LogoutAll(b) ==
    /\ Handles(b, "logout_all")
    /\ sessions' = {}
    /\ Answer(b, NoToken)
    /\ UNCHANGED <<password, issued, cut>>

\* A request is refused by its handler or dies before its first write.
GivesUp(b) ==
    /\ request[b] # NoRequest
    /\ request' = [request EXCEPT ![b] = NoRequest]
    /\ UNCHANGED <<clock, password, sessions, issued, cookie, cut>>

Handle(b) ==
    \/ Setup(b) \/ Login(b) \/ Logout(b)
    \/ ChangePassword(b)
    \/ List(b) \/ Revoke(b) \/ LogoutAll(b)

Stops(b) == SetupStops(b) \/ ChangePasswordStops(b) \/ GivesUp(b)

Next ==
    \/ Tick
    \/ \E b \in Browsers, kind \in Public \cup Guarded : Admit(b, kind)
    \/ \E b \in Browsers : Handle(b) \/ Stops(b)

Spec == Init /\ [][Next]_vars

----------------------------------------------------------------------------
(* Properties *)

\* The tables and the cookies keep their types, and there are never more
\* than SessionLimit sessions (create_auth_session).
AuthTypeOK ==
    /\ clock \in 0 .. MaxTime
    /\ password \in 0 .. MaxPasswords
    /\ sessions \subseteq Session
    /\ IsFiniteSet(sessions) /\ Cardinality(sessions) <= SessionLimit
    /\ issued \in 0 .. MaxTokens
    /\ cookie \in [Browsers -> 0 .. issued]
    /\ request \in [Browsers -> Public \cup Guarded \cup {NoRequest}]
    /\ cut \in BOOLEAN

\* Of several first visitors one sets the password: a setup that was let
\* through before never replaces it.
SetupOnce ==
    [][password # 0 /\ password' # password
         => \E b \in Browsers : request[b] = "password"
                                /\ request'[b] = NoRequest]_vars

\* A browser that has just signed in is signed in, however many sessions
\* there are: it is the oldest one that makes room.
SignedIn ==
    [][\A b \in Browsers :
         cookie'[b] \notin {cookie[b], NoToken} => ValidToken(cookie[b])']_vars

\* docs/README.md: "changing the password invalidates every other session",
\* whichever requests were let through before.  The one exception is a change
\* that stopped between its first two transactions (the README says more).
OnlyCurrentPassword ==
    cut \/ \A s \in sessions : s.password = password
============================================================================
