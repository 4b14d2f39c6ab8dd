------------------------ MODULE DashboardAuthProofs ------------------------
(* What the sessions of the dashboard keep to, for any number of browsers, *)
(* any limit and any lifetime.                                             *)
EXTENDS DashboardAuth, TLAPS, FiniteSetTheorems, WellFoundedInduction

\* A table of sessions in which a token names one row, and none is newer
\* than the last one issued.
Rows(S, n) ==
    /\ S \subseteq Session
    /\ IsFiniteSet(S)
    /\ \A s \in S : s.token \in 1 .. n
    /\ \A s, t \in S : s.token = t.token => s = t

\* No session precedes the password; it is of the current one unless a
\* change was cut short.
AuthInv ==
    /\ AuthTypeOK
    /\ Rows(sessions, issued)
    /\ password = 0 => sessions = {}
    /\ OnlyCurrentPassword

\* Fewer rows are a table, too.
LEMMA FewerRows ==
    ASSUME NEW S, NEW n, Rows(S, n), NEW T \in SUBSET S
    PROVE  Rows(T, n) /\ Cardinality(T) <= Cardinality(S)
<1>1. IsFiniteSet(T) /\ Cardinality(T) <= Cardinality(S)
  BY FS_Subset DEF Rows
<1> QED BY <1>1 DEF Rows

\* A session of its own for every sign-in.
LEMMA OneRowMore ==
    ASSUME NEW S, NEW n \in Nat, Rows(S, n), NEW s \in Session,
           s.token = n + 1
    PROVE  Rows(S \cup {s}, n + 1)
<1>1. IsFiniteSet(S \cup {s})
  BY FS_AddElement DEF Rows
<1>2. \A t \in S : t.token \in 1 .. n /\ t.token # n + 1
  BY DEF Rows
<1>3. \A t \in S \cup {s} : t.token \in 1 .. n + 1
  BY <1>2
<1>4. \A t, u \in S \cup {s} : t.token = u.token => t = u
  BY <1>2 DEF Rows
<1> QED BY <1>1, <1>3, <1>4 DEF Rows

\* An oldest row.
LEMMA Oldest ==
    ASSUME NEW n \in Nat, NEW S, Rows(S, n), S # {}
    PROVE  \E s \in S : \A t \in S : s.token <= t.token
<1> DEFINE K == {s.token : s \in S}
<1>1. K \in SUBSET Nat /\ \E k : k \in K
  BY DEF Rows
<1>2. PICK m \in K : \A k \in K : <<k, m>> \notin OpToRel(<, Nat)
  <2> HIDE DEF K
  <2> QED BY <1>1, WFMin, NatLessThanWellFounded, Zenon
<1>3. m \in Nat /\ \A k \in K : k \in Nat /\ ~(k < m)
  <2> HIDE DEF K
  <2> QED BY <1>1, <1>2, Zenon DEF OpToRel
<1>4. PICK s \in S : s.token = m
  OBVIOUS
<1>5. \A t \in S : t.token \in K
  OBVIOUS
<1>6. \A t \in S : t.token \in Nat /\ ~(t.token < s.token)
  <2> HIDE DEF K
  <2> QED BY <1>3, <1>4, <1>5, Zenon
<1>7. \A t \in S : s.token <= t.token
  BY <1>3, <1>4, <1>6
<1> QED BY <1>4, <1>7

\* DELETE ... ORDER BY rowid DESC LIMIT -1 OFFSET SessionLimit leaves no more
\* rows than that: all but the oldest one left are newer than it.
LEMMA TrimmedLimit ==
    ASSUME AuthAssumption, NEW n \in Nat, NEW S, Rows(S, n)
    PROVE  Rows(Trimmed(S), n) /\ Cardinality(Trimmed(S)) <= SessionLimit
<1> DEFINE T == Trimmed(S)
<1>1. T \in SUBSET S
  BY DEF Trimmed
<1>2. Rows(T, n)
  BY <1>1, FewerRows
<1>3. CASE T = {}
  BY <1>2, <1>3, FS_EmptySet DEF AuthAssumption
<1>4. CASE T # {}
  <2>1. PICK s \in T : \A t \in T : s.token <= t.token
    BY <1>2, <1>4, Oldest
  <2>2. \A t \in T \ {s} : t \in Newer(S, s)
    <3> TAKE t \in T \ {s}
    <3>1. t.token # s.token /\ t.token \in Nat /\ s.token \in Nat
      BY <1>2, <2>1 DEF Rows
    <3>2. t.token > s.token
      BY <2>1, <3>1
    <3> QED BY <1>1, <3>2 DEF Newer
  <2>3. IsFiniteSet(Newer(S, s)) /\ Cardinality(Newer(S, s)) \in Nat
    <3>1. Newer(S, s) \subseteq S
      BY DEF Newer
    <3> QED BY <3>1, FS_Subset, FS_CardinalityType DEF Rows
  <2>4. Cardinality(T \ {s}) <= Cardinality(Newer(S, s))
    <3>1. T \ {s} \subseteq Newer(S, s)
      BY <2>2
    <3> QED BY <2>3, <3>1, FS_Subset
  <2>5. Cardinality(Newer(S, s)) < SessionLimit
    BY <2>1 DEF Trimmed
  <2>6. IsFiniteSet(T) /\ Cardinality(T) \in Nat
    BY <1>2, FS_CardinalityType DEF Rows
  <2>7. Cardinality(T \ {s}) = Cardinality(T) - 1
    BY <2>1, <2>6, FS_RemoveElement
  <2> QED BY <1>2, <2>3, <2>4, <2>5, <2>6, <2>7 DEF AuthAssumption
<1> QED BY <1>2, <1>3, <1>4

\* create_auth_session: the row it adds is there, valid, and of the password
\* the sign-in used.
LEMMA SignInStep ==
    ASSUME AuthAssumption, clock \in Nat, issued \in 0 .. MaxTokens,
           cookie \in [Browsers -> 0 .. issued],
           NEW b, NEW S, Rows(S, issued), NEW p \in Nat,
           SignIn(b, S, p), UNCHANGED clock
    PROVE  /\ issued' \in 0 .. MaxTokens
           /\ cookie' \in [Browsers -> 0 .. issued']
           /\ Rows(sessions, issued)'
           /\ Cardinality(sessions') <= SessionLimit
           /\ \A s \in sessions' : s \in S \/ s.password = p
           /\ \E s \in sessions' : s.token = issued + 1 /\ Alive(s)'
<1> DEFINE R == {s \in S : Alive(s)}
<1>n. PICK new : new = [token |-> issued + 1, expires |-> clock + Lifetime,
                        password |-> p]
  OBVIOUS
<1>0. issued \in Nat /\ Lifetime \in Nat /\ Lifetime > 0
      /\ SessionLimit \in Nat /\ SessionLimit > 0
  BY DEF AuthAssumption
<1>1. new \in Session /\ new.token = issued + 1 /\ new.password = p
      /\ new.expires > clock
  BY <1>0, <1>n DEF Session
<1>2. Rows(R, issued)
  BY FewerRows
<1>3. Rows(R \cup {new}, issued + 1)
  BY <1>0, <1>1, <1>2, OneRowMore
<1>4. issued' = issued + 1 /\ sessions' = Trimmed(R \cup {new})
  BY <1>n, Zenon DEF SignIn, WithNewSession
<1>5. Rows(sessions, issued)' /\ Cardinality(sessions') <= SessionLimit
  <2>1. /\ Rows(Trimmed(R \cup {new}), issued + 1)
        /\ Cardinality(Trimmed(R \cup {new})) <= SessionLimit
    BY <1>0, <1>3, TrimmedLimit
  <2>2. Rows(sessions', issued') /\ Cardinality(sessions') <= SessionLimit
    BY <1>4, <2>1
  <2> QED BY <2>2 DEF Rows
<1>6. new \in sessions'
  <2>1. \A t \in R \cup {new} : t.token \in 1 .. issued + 1
    BY <1>3 DEF Rows
  <2>2. Newer(R \cup {new}, new) = {}
    BY <1>0, <1>1, <2>1 DEF Newer
  <2>3. Cardinality(Newer(R \cup {new}, new)) < SessionLimit
    BY <1>0, <2>2, FS_EmptySet
  <2> QED BY <1>4, <2>3 DEF Trimmed
<1>7. \A s \in sessions' : s \in S \/ s.password = p
  BY <1>1, <1>4 DEF Trimmed
<1>8. cookie' \in [Browsers -> 0 .. issued']
  <2>1. \A c \in [Browsers -> 0 .. issued] :
          c \in [Browsers -> 0 .. issued + 1]
    BY <1>0
  <2>2. [cookie EXCEPT ![b] = issued + 1] \in [Browsers -> 0 .. issued + 1]
    <3>1. \A c \in [Browsers -> 0 .. issued + 1], t \in 0 .. issued + 1 :
            [c EXCEPT ![b] = t] \in [Browsers -> 0 .. issued + 1]
      OBVIOUS
    <3>2. cookie \in [Browsers -> 0 .. issued + 1] /\ issued + 1 \in 0 .. issued + 1
      BY <1>0, <2>1
    <3> QED BY <3>1, <3>2
  <2> QED BY <1>4, <2>1, <2>2 DEF SignIn, Answer
<1>9. issued' \in 0 .. MaxTokens
  BY <1>0, <1>4 DEF SignIn, AuthAssumption
<1>10. Alive(new)'
  <2>1. clock' = clock
    OBVIOUS
  <2> QED BY <1>1, <2>1 DEF Alive
<1>11. \E s \in sessions' : s.token = issued + 1 /\ Alive(s)'
  BY <1>1, <1>6, <1>10
<1> QED BY <1>5, <1>7, <1>8, <1>9, <1>11

\* A handler answers with no cookie, or with none that matters.
LEMMA AnswerStep ==
    ASSUME NEW b, NEW n \in Nat, cookie \in [Browsers -> 0 .. n],
           Answer(b, NoToken)
    PROVE  cookie' \in [Browsers -> 0 .. n]
BY DEF Answer, NoToken

\* A handler that keeps the password only deletes rows, or signs in with it.
LEMMA SamePassword ==
    ASSUME AuthInv, UNCHANGED <<clock, password, issued, cut>>,
           sessions' \subseteq sessions,
           cookie' \in [Browsers -> 0 .. issued],
           request' \in [Browsers -> Public \cup Guarded \cup {NoRequest}]
    PROVE  AuthInv'
<1>1. Rows(sessions', issued) /\ Cardinality(sessions') <= Cardinality(sessions)
  BY FewerRows DEF AuthInv
<1>2. Cardinality(sessions') \in Nat /\ Cardinality(sessions) \in Nat
  BY <1>1, FS_CardinalityType DEF AuthInv, AuthTypeOK, Rows
<1>3. /\ sessions' \subseteq Session /\ IsFiniteSet(sessions')
      /\ Cardinality(sessions') <= SessionLimit
  BY <1>1, <1>2, AuthAssumption DEF AuthInv, AuthTypeOK, Rows, AuthAssumption
<1>4. Rows(sessions, issued)'
  BY <1>1 DEF Rows
<1> QED BY <1>3, <1>4 DEF AuthInv, AuthTypeOK, OnlyCurrentPassword

\* A sign-in with the password of the rows it finds, or with none to find.
LEMMA SignInKeeps ==
    ASSUME AuthInv, NEW b, NEW S \in SUBSET sessions,
           SignIn(b, S, password'), UNCHANGED clock,
           password' \in 1 .. MaxPasswords, cut' \in BOOLEAN,
           cut' \/ \A s \in S : s.password = password',
           request' \in [Browsers -> Public \cup Guarded \cup {NoRequest}]
    PROVE  AuthInv'
<1>0. /\ clock \in Nat /\ issued \in 0 .. MaxTokens /\ password' \in Nat
      /\ cookie \in [Browsers -> 0 .. issued]
  BY AuthAssumption DEF AuthInv, AuthTypeOK, AuthAssumption
<1>1. Rows(S, issued)
  BY FewerRows DEF AuthInv
<1>2. /\ issued' \in 0 .. MaxTokens
      /\ cookie' \in [Browsers -> 0 .. issued']
      /\ Rows(sessions, issued)'
      /\ Cardinality(sessions') <= SessionLimit
      /\ \A s \in sessions' : s \in S \/ s.password = password'
  BY <1>0, <1>1, SignInStep, AuthAssumption
<1>3. password' # 0 /\ password' \in 0 .. MaxPasswords
  BY AuthAssumption DEF AuthAssumption
<1>4. sessions' \subseteq Session /\ IsFiniteSet(sessions')
  BY <1>2 DEF Rows
<1>5. clock' \in 0 .. MaxTime
  BY DEF AuthInv, AuthTypeOK
<1> QED BY <1>2, <1>3, <1>4, <1>5 DEF AuthInv, AuthTypeOK, OnlyCurrentPassword

\* A request on its way, or handled.
LEMMA RequestType ==
    ASSUME AuthTypeOK, NEW b, NEW k \in Public \cup Guarded \cup {NoRequest}
    PROVE  [request EXCEPT ![b] = k]
             \in [Browsers -> Public \cup Guarded \cup {NoRequest}]
BY DEF AuthTypeOK

LEMMA HandlesType ==
    ASSUME AuthTypeOK, NEW b, NEW k, Handles(b, k)
    PROVE  /\ request' \in [Browsers -> Public \cup Guarded \cup {NoRequest}]
           /\ UNCHANGED clock
BY RequestType DEF Handles

\* Every handler that reaches its end.
LEMMA HandleStep ==
    ASSUME AuthInv, NEW b \in Browsers, Handle(b)
    PROVE  AuthInv'
<1>0. /\ AuthTypeOK /\ issued \in Nat /\ cookie \in [Browsers -> 0 .. issued]
      /\ password \in 0 .. MaxPasswords /\ cut \in BOOLEAN
      /\ MaxPasswords \in Nat /\ MaxPasswords > 0
  BY AuthAssumption DEF AuthInv, AuthTypeOK, AuthAssumption
<1>1. CASE Setup(b)
  <2>1. /\ request' \in [Browsers -> Public \cup Guarded \cup {NoRequest}]
        /\ UNCHANGED <<clock, cut>>
    BY <1>0, <1>1, HandlesType DEF Setup
  <2>2. CASE password = 0
    <3>1. /\ password' = 1 /\ SignIn(b, sessions, password')
          /\ sessions = {}
      BY <1>1, <2>2 DEF Setup, AuthInv
    <3> QED BY <1>0, <2>1, <3>1, SignInKeeps
  <2>3. CASE password # 0
    <3>1. UNCHANGED <<password, sessions, issued, cookie>>
      BY <1>1, <2>3 DEF Setup
    <3> QED BY <1>0, <2>1, <3>1, SamePassword
  <2> QED BY <2>2, <2>3
<1>2. CASE Login(b)
  <2>1. /\ request' \in [Browsers -> Public \cup Guarded \cup {NoRequest}]
        /\ UNCHANGED <<clock, password, cut>>
    BY <1>0, <1>2, HandlesType DEF Login
  <2>2. CASE password # 0 /\ SignIn(b, sessions, password)
    <3>1. SignIn(b, sessions, password') /\ password' \in 1 .. MaxPasswords
      BY <1>0, <2>1, <2>2
    <3>2. cut' \/ \A s \in sessions : s.password = password'
      BY <2>1 DEF AuthInv, OnlyCurrentPassword
    <3> QED BY <1>0, <2>1, <3>1, <3>2, SignInKeeps
  <2>3. CASE UNCHANGED <<sessions, issued, cookie>>
    BY <1>0, <2>1, <2>3, SamePassword
  <2> QED BY <1>2, <2>2, <2>3 DEF Login
<1>3. CASE Logout(b)
  <2>1. /\ request' \in [Browsers -> Public \cup Guarded \cup {NoRequest}]
        /\ UNCHANGED <<clock, password, issued, cut>>
        /\ sessions' \subseteq sessions
    BY <1>0, <1>3, HandlesType DEF Logout
  <2>2. cookie' \in [Browsers -> 0 .. issued]
    BY <1>0, <1>3, AnswerStep DEF Logout
  <2> QED BY <2>1, <2>2, SamePassword
<1>4. CASE ChangePassword(b)
  <2>1. /\ request' \in [Browsers -> Public \cup Guarded \cup {NoRequest}]
        /\ UNCHANGED clock /\ SignIn(b, {}, password') /\ cut' = FALSE
    BY <1>0, <1>4, HandlesType DEF ChangePassword
  <2>2. password' \in 1 .. MaxPasswords
    BY <1>0, <1>4 DEF ChangePassword
  <2> QED BY <2>1, <2>2, SignInKeeps
<1>5. CASE List(b)
  <2>1. /\ request' \in [Browsers -> Public \cup Guarded \cup {NoRequest}]
        /\ UNCHANGED <<clock, password, issued, cookie, cut>>
        /\ sessions' \subseteq sessions
    BY <1>0, <1>5, HandlesType DEF List
  <2> QED BY <1>0, <2>1, SamePassword
<1>6. CASE Revoke(b)
  <2>1. /\ request' \in [Browsers -> Public \cup Guarded \cup {NoRequest}]
        /\ UNCHANGED <<clock, password, issued, cut>>
        /\ sessions' \subseteq sessions
        /\ Answer(b, NoToken) \/ UNCHANGED cookie
    BY <1>0, <1>6, HandlesType DEF Revoke
  <2>2. cookie' \in [Browsers -> 0 .. issued]
    BY <1>0, <2>1, AnswerStep
  <2> QED BY <2>1, <2>2, SamePassword
<1>7. CASE LogoutAll(b)
  <2>1. /\ request' \in [Browsers -> Public \cup Guarded \cup {NoRequest}]
        /\ UNCHANGED <<clock, password, issued, cut>>
        /\ sessions' \subseteq sessions
    BY <1>0, <1>7, HandlesType DEF LogoutAll
  <2>2. cookie' \in [Browsers -> 0 .. issued]
    BY <1>0, <1>7, AnswerStep DEF LogoutAll
  <2> QED BY <2>1, <2>2, SamePassword
<1> QED BY <1>1, <1>2, <1>3, <1>4, <1>5, <1>6, <1>7 DEF Handle

\* Handlers that stop between two of their transactions.
LEMMA StopsStep ==
    ASSUME AuthInv, NEW b \in Browsers, Stops(b)
    PROVE  AuthInv'
<1>0. /\ AuthTypeOK /\ cookie \in [Browsers -> 0 .. issued]
      /\ password \in 0 .. MaxPasswords
      /\ MaxPasswords \in Nat /\ MaxPasswords > 0
  BY AuthAssumption DEF AuthInv, AuthTypeOK, AuthAssumption
<1>1. CASE SetupStops(b)
  <2>1. /\ request' \in [Browsers -> Public \cup Guarded \cup {NoRequest}]
        /\ UNCHANGED <<clock, sessions, issued, cookie, cut>>
        /\ password' = 1 /\ sessions = {}
    BY <1>0, <1>1, HandlesType DEF SetupStops, AuthInv
  <2>2. password' \in 0 .. MaxPasswords
    BY <1>0, <2>1
  <2> QED BY <2>1, <2>2 DEF AuthInv, AuthTypeOK, Rows, OnlyCurrentPassword
<1>2. CASE ChangePasswordStops(b)
  <2>1. /\ request' \in [Browsers -> Public \cup Guarded \cup {NoRequest}]
        /\ UNCHANGED <<clock, issued, cookie>>
        /\ password' \in 1 .. MaxPasswords
        /\ \/ sessions' = {} /\ cut' = FALSE
           \/ UNCHANGED sessions /\ cut' = TRUE
    BY <1>0, <1>2, HandlesType DEF ChangePasswordStops
  <2>2. password' \in 0 .. MaxPasswords /\ password' # 0
    BY <2>1
  <2>3. CASE sessions' = {} /\ cut' = FALSE
    <3>1. IsFiniteSet({}) /\ Cardinality({}) = 0
      BY FS_EmptySet
    <3>2. 0 <= SessionLimit
      BY AuthAssumption DEF AuthAssumption
    <3> QED BY <2>1, <2>2, <2>3, <3>1, <3>2
            DEF AuthInv, AuthTypeOK, Rows, OnlyCurrentPassword
  <2>4. CASE UNCHANGED sessions /\ cut' = TRUE
    BY <2>1, <2>2, <2>4 DEF AuthInv, AuthTypeOK, Rows, OnlyCurrentPassword
  <2> QED BY <2>1, <2>3, <2>4
<1>3. CASE GivesUp(b)
  <2>1. /\ request' \in [Browsers -> Public \cup Guarded \cup {NoRequest}]
        /\ UNCHANGED <<clock, password, sessions, issued, cookie, cut>>
    BY <1>0, <1>3, RequestType DEF GivesUp
  <2> QED BY <1>0, <2>1, SamePassword
<1> QED BY <1>1, <1>2, <1>3 DEF Stops

\* What holds of the tables and the cookies between any two steps.
LEMMA AuthInvariant == Spec => []AuthInv
<1>1. Init => AuthInv
  <2> SUFFICES ASSUME Init PROVE AuthInv
    OBVIOUS
  <2>1. /\ 0 \in 0 .. MaxTime /\ 0 \in 0 .. MaxPasswords
        /\ 0 \in 0 .. MaxTokens /\ 0 <= SessionLimit /\ 0 \in 0 .. 0
    BY AuthAssumption DEF AuthAssumption
  <2>2. IsFiniteSet({}) /\ Cardinality({}) = 0
    BY FS_EmptySet
  <2> QED BY <2>1, <2>2
          DEF Init, AuthInv, AuthTypeOK, Rows, OnlyCurrentPassword, NoToken
<1>2. AuthInv /\ [Next]_vars => AuthInv'
  <2> SUFFICES ASSUME AuthInv, [Next]_vars PROVE AuthInv'
    OBVIOUS
  <2>1. CASE Tick
    <3>1. clock' \in 0 .. MaxTime
      BY <2>1, AuthAssumption DEF Tick, AuthInv, AuthTypeOK, AuthAssumption
    <3> QED BY <2>1, <3>1
            DEF Tick, AuthInv, AuthTypeOK, Rows, OnlyCurrentPassword
  <2>2. ASSUME NEW b \in Browsers, NEW k \in Public \cup Guarded, Admit(b, k)
        PROVE  AuthInv'
    <3>1. /\ request' \in [Browsers -> Public \cup Guarded \cup {NoRequest}]
          /\ UNCHANGED <<clock, password, sessions, issued, cookie, cut>>
      BY <2>2, RequestType DEF Admit, AuthInv
    <3> QED BY <3>1, SamePassword DEF AuthInv, AuthTypeOK
  <2>3. CASE UNCHANGED vars
    BY <2>3 DEF vars, AuthInv, AuthTypeOK, Rows, OnlyCurrentPassword
  <2> QED BY <2>1, <2>2, <2>3, HandleStep, StopsStep DEF Next
<1> QED BY <1>1, <1>2, PTL DEF Spec

\* The tables and the cookies keep their types, and create_auth_session
\* never leaves more than SessionLimit sessions.
THEOREM TypeCorrect == Spec => []AuthTypeOK
<1>1. AuthInv => AuthTypeOK
  BY DEF AuthInv
<1> QED BY <1>1, AuthInvariant, PTL

\* A session outlives its password only in a change that stopped between
\* its first two transactions.
THEOREM OldPasswordsSignNobodyIn == Spec => []OnlyCurrentPassword
<1>1. AuthInv => OnlyCurrentPassword
  BY DEF AuthInv
<1> QED BY <1>1, AuthInvariant, PTL

\* The password is set once; from then on only the handler of an admitted
\* change replaces it.
THEOREM FirstSetupWins == Spec => SetupOnce
<1>1. AuthTypeOK /\ [Next]_vars
        => [password # 0 /\ password' # password
              => \E b \in Browsers : request[b] = "password"
                                     /\ request'[b] = NoRequest]_vars
  <2> SUFFICES ASSUME AuthTypeOK, Next, password # 0, password' # password
               PROVE  \E b \in Browsers : request[b] = "password"
                                          /\ request'[b] = NoRequest
    BY DEF vars
  <2>1. PICK b \in Browsers : Handle(b) \/ Stops(b)
    BY DEF Next, Tick, Admit
  <2>2. Handles(b, "password")
    BY <2>1 DEF Handle, Stops, Setup, Login, Logout, ChangePassword, List,
                Revoke, LogoutAll, SetupStops, ChangePasswordStops, GivesUp
  <2>3. request[b] = "password"
    BY <2>2 DEF Handles
  <2>4. request'[b] = NoRequest
    BY <2>2 DEF Handles, AuthTypeOK
  <2> QED BY <2>3, <2>4
<1> QED BY <1>1, TypeCorrect, PTL DEF Spec, SetupOnce

\* Whoever has just signed in is signed in: the new session is the newest,
\* so it is an older one that makes room.
THEOREM SignInHolds == Spec => SignedIn
<1>1. AuthInv /\ [Next]_vars
        => [\A b \in Browsers :
              cookie'[b] \notin {cookie[b], NoToken} =>
                ValidToken(cookie[b])']_vars
  <2> SUFFICES ASSUME AuthInv, Next, NEW b \in Browsers,
                      cookie'[b] \notin {cookie[b], NoToken}
               PROVE  ValidToken(cookie[b])'
    BY DEF vars
  <2>0. /\ issued \in Nat /\ cookie \in [Browsers -> 0 .. issued]
    BY AuthAssumption DEF AuthInv, AuthTypeOK, AuthAssumption
  <2>1. PICK c \in Browsers, S \in SUBSET sessions, p \in Nat :
          /\ SignIn(c, S, p) /\ Rows(S, issued)
          /\ UNCHANGED clock
    <3>1. PICK c \in Browsers : Handle(c)
      BY DEF Next, Tick, Admit, Stops, SetupStops, ChangePasswordStops, GivesUp
    <3>2. \A d : cookie'[b] # [cookie EXCEPT ![d] = NoToken][b]
      BY <2>0
    <3>3. ~UNCHANGED cookie /\ ~Answer(c, NoToken)
      BY <3>2 DEF Answer
    <3>4. /\ UNCHANGED clock /\ password \in Nat /\ password + 1 \in Nat
          /\ Rows(sessions, issued) /\ Rows({}, issued)
      <4>1. UNCHANGED clock
        BY <3>1 DEF Handle, Setup, Login, Logout, ChangePassword, List,
                    Revoke, LogoutAll, Handles
      <4>2. Rows({}, issued)
        BY FS_EmptySet DEF Rows
      <4> QED BY <4>1, <4>2, AuthAssumption DEF AuthInv, AuthTypeOK, AuthAssumption
    <3>5. \/ SignIn(c, sessions, 1) \/ SignIn(c, sessions, password)
          \/ SignIn(c, {}, password + 1)
      BY <3>1, <3>3 DEF Handle, Setup, Login, Logout, ChangePassword, List,
                        Revoke, LogoutAll
    <3> QED BY <3>4, <3>5
  <2>2. \E s \in sessions' : s.token = issued + 1 /\ Alive(s)'
    <3>1. clock \in Nat /\ issued \in 0 .. MaxTokens
      BY AuthAssumption DEF AuthInv, AuthTypeOK, AuthAssumption
    <3> QED BY <2>0, <2>1, <3>1, SignInStep, AuthAssumption
  <2>3. cookie'[b] = issued + 1
    BY <2>0, <2>1 DEF SignIn, Answer
  <2> QED BY <2>2, <2>3 DEF ValidToken
<1> QED BY <1>1, AuthInvariant, PTL DEF Spec, SignedIn
============================================================================
