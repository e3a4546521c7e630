---------------------------- MODULE AuthSessions ----------------------------
(***************************************************************************)
(* Accounts and sessions: auth.service.ts, users.service.ts, the session    *)
(* service and their repositories, between clients that hold tokens and a   *)
(* database.  A request is a process with one step per database call, so    *)
(* that requests overlap as the awaits of the code let them.                *)
(*                                                                         *)
(* An account is its e-mail address.  A stored password says which password *)
(* was hashed and how often.  The hash of a session, which its refresh      *)
(* token carries, is the number of the request that drew it.  What a client *)
(* may ask for is limited by the tokens and links it holds; an expired one  *)
(* is a request that does not happen.                                       *)
(***************************************************************************)
EXTENDS Naturals, FiniteSets

CONSTANTS Users, Passwords, Requests,  \* accounts, passwords, request slots
          MaxRequests,                 \* bound: requests started
          MaxSessions,                 \* bound: sessions ever opened
          InitialUsers,                \* rows an account may start with
          AdminDtos                    \* bodies of POST and PATCH /users

Sessions == 1..MaxSessions
Statuses == {"pending", "inactive", "active", "blocked"}
Roles == {"user", "verwaltung"}
Nobody == "nobody"
Undefined == "undefined"               \* a field a body does not carry, a column without value

\* A password as a person chose it has no layer, a hashed one has one, and a
\* hash that was taken for a password and hashed again has more.
Passphrases == [of : Passwords, layers : Nat]
NoPassword == [of |-> Undefined, layers |-> 0]
Chosen(p) == [of |-> p, layers |-> 0]
Hashed(p) == [of |-> p, layers |-> 1]
IsChosen(password) == password.of # Undefined /\ password.layers = 0

UserRows == [state : {"absent", "present", "deleted"}, status : Statuses \cup {Undefined},
             role : Roles \cup {Undefined}, password : Passphrases]
Dtos == [status : Statuses \cup {Undefined}, role : Roles \cup {Undefined},
         password : Passphrases \cup {NoPassword}]
NoChange == [status |-> Undefined, role |-> Undefined, password |-> NoPassword]

ASSUME BoundsAssumption == MaxRequests \in Nat /\ MaxSessions \in Nat
ASSUME RowsAssumption == InitialUsers \subseteq UserRows /\ AdminDtos \subseteq Dtos
ASSUME UndefinedAssumption == Undefined \notin Passwords
ASSUME BodiesAssumption == \A dto \in AdminDtos : dto.password.layers = 0 \* as people type them

VARIABLES
  users,      \* the table "user"
  sessions,   \* the table "session"; "ended" is a row with deletedAt
  client,     \* hash in the refresh token the client of a session holds, or 0
  mails,      \* links that were mailed: <<purpose, account>>
  req,        \* the requests under way
  started,    \* number of requests so far
  redeemed,   \* history: per session, the hashes a refresh has exchanged
  diverged    \* history: sessions with a lost reply or overlapping refreshes
vars == <<users, sessions, client, mails, req, started, redeemed, diverged>>

Kinds == {"none", "register", "create", "login", "refresh", "confirm", "reset",
          "update", "adminUpdate"}
Steps == {"idle", "saveNew", "createSession", "reply", "readUser", "findSession",
          "saveSession", "deleteSessions", "before", "find", "saveUser"}

\* The locals of a request.  The last four are history: whether the account
\* changed since the request first read it, whether the row it is going to save
\* changed since the read before the save (late), whether its session did since
\* the hash was compared (raced), and the sessions its password ends (doomed).
NewRequest(kind, step, u) ==
  [kind |-> kind, step |-> step, user |-> u, session |-> 0, number |-> 0,
   presented |-> 0, dto |-> NoChange, outdated |-> FALSE, late |-> FALSE,
   raced |-> FALSE, doomed |-> {}]
Idle == NewRequest("none", "idle", Nobody)

Init ==
  /\ users \in [Users -> InitialUsers]
  /\ sessions = [s \in Sessions |-> [user |-> Nobody, hash |-> 0, state |-> "free"]]
  /\ client = [s \in Sessions |-> 0]
  /\ mails = {}
  /\ req = [r \in Requests |-> Idle]
  /\ started = 0
  /\ redeemed = [s \in Sessions |-> {}]
  /\ diverged = {}

-----------------------------------------------------------------------------
Present(u) == u \in Users /\ users[u].state = "present"
Open(s) == sessions[s].state = "open"
SessionsOf(u) == {s \in Sessions : Open(s) /\ sessions[s].user = u}

\* An access token is not looked up: it holds until it expires, whatever became of
\* the session.  A refresh token carries the hash; a client has its newest one, and
\* copies of those it has exchanged may still be around.
SignedIn(s) == client[s] # 0
refreshTokens(s) == ({client[s]} \ {0}) \cup redeemed[s]

Start(r, request) ==
  /\ req[r].kind = "none" /\ started < MaxRequests
  /\ started' = started + 1
  /\ req' = [req EXCEPT ![r] = [request EXCEPT !.number = started + 1]]
At(r, step) == req[r].step = step
Goto(r, step) == [req EXCEPT ![r].step = step]
Finish(r) == [req EXCEPT ![r] = Idle]

\* The requests q after somebody else wrote account u, or the sessions S.
userWritten(u, q) ==
  [r \in Requests |->
     IF q[r].user = u
     THEN [q[r] EXCEPT !.outdated = TRUE, !.late = @ \/ q[r].kind # "refresh"]
     ELSE q[r]]
sessionsWritten(S, q) ==
  [r \in Requests |->
     IF q[r].kind = "refresh" /\ q[r].session \in S
     THEN [q[r] EXCEPT !.late = TRUE, !.raced = TRUE]
     ELSE q[r]]

-----------------------------------------------------------------------------
(* Accounts. *)

\* Both look the address up first; findByEmail does not see deleted accounts.
register(r, u, p) ==
  /\ u \in Users /\ ~Present(u)
  /\ Start(r, [NewRequest("register", "saveNew", u) EXCEPT
                 !.dto = [status |-> "pending", role |-> "user", password |-> Hashed(p)]])
  /\ UNCHANGED <<users, sessions, client, mails, redeemed, diverged>>

createUser_anyPassword(r, u, dto) ==
  /\ ~Present(u)
  /\ Start(r, [NewRequest("create", "saveNew", u) EXCEPT
                 !.dto = [dto EXCEPT !.password = Hashed(dto.password.of)]])
  /\ UNCHANGED <<users, sessions, client, mails, redeemed, diverged>>

\* The body must carry a password; an account may be created without role or status.
createUser(r, u, dto) ==
  /\ ~Present(u) /\ IsChosen(dto.password)
  /\ Start(r, [NewRequest("create", "saveNew", u) EXCEPT
                 !.dto = [dto EXCEPT !.password = Hashed(dto.password.of)]])
  /\ UNCHANGED <<users, sessions, client, mails, redeemed, diverged>>

\* The unique index on email also holds for deleted accounts.  The mail of a
\* registration may not arrive.
saveNewUser(r) ==
  LET u == req[r].user IN
  /\ At(r, "saveNew")
  /\ IF users[u].state = "absent"
     THEN /\ users' = [users EXCEPT ![u] =
                         [state |-> "present", status |-> req[r].dto.status,
                          role |-> req[r].dto.role, password |-> req[r].dto.password]]
          /\ req' = userWritten(u, Finish(r))
          /\ \/ mails' = mails \cup IF req[r].kind = "register" THEN {<<"confirm", u>>} ELSE {}
             \/ UNCHANGED mails
     ELSE /\ req' = Finish(r)
          /\ UNCHANGED <<users, mails>>
  /\ UNCHANGED <<sessions, client, started, redeemed, diverged>>

forgotPassword(u) ==
  /\ Present(u)
  /\ mails' = mails \cup {<<"forgot", u>>}
  /\ UNCHANGED <<users, sessions, client, req, started, redeemed, diverged>>

\* The account as it was read, with its new status, is handed to users.update.
confirmEmail(r, u) ==
  /\ <<"confirm", u>> \in mails /\ Present(u) /\ users[u].status = "pending"
  /\ Start(r, [NewRequest("confirm", "before", u) EXCEPT
                 !.dto = [status |-> "inactive", role |-> users[u].role,
                          password |-> users[u].password]])
  /\ UNCHANGED <<users, sessions, client, mails, redeemed, diverged>>

resetPassword(r, u, p) ==
  /\ <<"forgot", u>> \in mails /\ Present(u)
  /\ Start(r, [NewRequest("reset", "deleteSessions", u) EXCEPT
                 !.dto = [status |-> users[u].status, role |-> users[u].role,
                          password |-> Chosen(p)],
                 !.doomed = SessionsOf(u)])
  /\ UNCHANGED <<users, sessions, client, mails, redeemed, diverged>>

\* PATCH /auth/me, with a new password (the old one must be the stored one) or without.
update(r, s, p) ==
  LET u == sessions[s].user IN
  /\ SignedIn(s) /\ Present(u)
  /\ users[u].password.layers = 1
  /\ Start(r, [NewRequest("update", "deleteSessions", u) EXCEPT
                 !.session = s,
                 !.dto = [NoChange EXCEPT !.password = Chosen(p)],
                 !.doomed = SessionsOf(u) \ {s}])
  /\ UNCHANGED <<users, sessions, client, mails, redeemed, diverged>>

updateProfile(r, s) ==
  /\ SignedIn(s) /\ Present(sessions[s].user)
  /\ Start(r, [NewRequest("update", "before", sessions[s].user) EXCEPT !.session = s])
  /\ UNCHANGED <<users, sessions, client, mails, redeemed, diverged>>

deletedSessions_onlyOwn(r) ==
  IF req[r].kind = "update" THEN {req[r].session} ELSE SessionsOf(req[r].user)

\* deleteByUserId for a reset, deleteByUserIdWithExclude for an own change.
deletedSessions(r) ==
  SessionsOf(req[r].user) \ (IF req[r].kind = "update" THEN {req[r].session} ELSE {})

deleteSessions(r) ==
  /\ At(r, "deleteSessions")
  /\ sessions' = [s \in Sessions |-> IF s \in deletedSessions(r)
                                     THEN [sessions[s] EXCEPT !.state = "ended"]
                                     ELSE sessions[s]]
  /\ req' = sessionsWritten(deletedSessions(r), Goto(r, "before"))
  /\ UNCHANGED <<users, client, mails, started, redeemed, diverged>>

passwordToSave_always(password, u) ==
  IF password = NoPassword \/ ~Present(u) THEN NoPassword
  ELSE [password EXCEPT !.layers = @ + 1]

\* What users.update writes: a password that differs from the stored one is hashed.
passwordToSave(password, u) ==
  IF password = NoPassword \/ ~Present(u) \/ users[u].password = password
  THEN NoPassword ELSE [password EXCEPT !.layers = @ + 1]

adminUpdate(r, u, dto) ==
  /\ Start(r, [NewRequest("adminUpdate", "find", u) EXCEPT
                 !.dto = [dto EXCEPT !.password = passwordToSave(dto.password, u)]])
  /\ UNCHANGED <<users, sessions, client, mails, redeemed, diverged>>

readBefore(r) ==
  /\ At(r, "before")
  /\ req' = [req EXCEPT ![r].step = "find",
                        ![r].dto.password = passwordToSave(req[r].dto.password, req[r].user)]
  /\ UNCHANGED <<users, sessions, client, mails, started, redeemed, diverged>>

findUser_deletedToo(r) ==
  /\ At(r, "find")
  /\ req' = [req EXCEPT ![r].step = "saveUser", ![r].late = FALSE]
  /\ UNCHANGED <<users, sessions, client, mails, started, redeemed, diverged>>

findUser(r) ==
  /\ At(r, "find")
  /\ req' = IF Present(req[r].user)
            THEN [req EXCEPT ![r].step = "saveUser", ![r].late = FALSE]
            ELSE Finish(r)
  /\ UNCHANGED <<users, sessions, client, mails, started, redeemed, diverged>>

\* save writes the whole entity that was found: its deletedAt, which is null, too.
savedUser(row, dto) ==
  [state    |-> "present",
   status   |-> IF dto.status = Undefined THEN row.status ELSE dto.status,
   role     |-> IF dto.role = Undefined THEN row.role ELSE dto.role,
   password |-> IF dto.password = NoPassword THEN row.password ELSE dto.password]

saveUser(r) ==
  LET u == req[r].user IN
  /\ At(r, "saveUser")
  /\ users' = [users EXCEPT ![u] = savedUser(@, req[r].dto)]
  /\ req' = IF users'[u] = users[u] THEN Finish(r) ELSE userWritten(u, Finish(r))
  /\ UNCHANGED <<sessions, client, mails, started, redeemed, diverged>>

\* DELETE /users/:id and DELETE /auth/me; the sessions of the account stay.
removeUser(u) ==
  /\ Present(u)
  /\ users' = [users EXCEPT ![u].state = "deleted"]
  /\ req' = userWritten(u, req)
  /\ UNCHANGED <<sessions, client, mails, started, redeemed, diverged>>

-----------------------------------------------------------------------------
(* Sessions. *)

FreeSessions == {s \in Sessions : sessions[s].state = "free"}
LoginsUnderWay == {r \in Requests : At(r, "createSession")}

validateLogin(r, u, p) ==
  /\ Present(u) /\ users[u].password = Hashed(p) /\ users[u].status = "active"
  /\ Cardinality(LoginsUnderWay) < Cardinality(FreeSessions)
  /\ Start(r, NewRequest("login", "createSession", u))
  /\ UNCHANGED <<users, sessions, client, mails, redeemed, diverged>>

createSession(r) ==
  /\ At(r, "createSession")
  /\ \E s \in FreeSessions :
       /\ \A t \in FreeSessions : s <= t
       /\ sessions' = [sessions EXCEPT ![s] = [user |-> req[r].user, state |-> "open",
                                               hash |-> req[r].number]]
       /\ req' = [req EXCEPT ![r].step = "reply", ![r].session = s]
  /\ UNCHANGED <<users, client, mails, started, redeemed, diverged>>

refreshToken_anyHash(r, s, h) ==
  /\ h \in refreshTokens(s)
  /\ Open(s) /\ Present(sessions[s].user)
  /\ Start(r, [NewRequest("refresh", "readUser", sessions[s].user) EXCEPT
                 !.session = s, !.presented = h])
  /\ UNCHANGED <<users, sessions, client, mails, redeemed, diverged>>

\* The user comes with the session; without one the request fails.
refreshToken(r, s, h) ==
  /\ h \in refreshTokens(s)
  /\ Open(s) /\ sessions[s].hash = h /\ Present(sessions[s].user)
  /\ Start(r, [NewRequest("refresh", "readUser", sessions[s].user) EXCEPT
                 !.session = s, !.presented = h])
  /\ UNCHANGED <<users, sessions, client, mails, redeemed, diverged>>

readUser(r) ==
  /\ At(r, "readUser")
  /\ req' = IF Present(req[r].user) THEN Goto(r, "findSession") ELSE Finish(r)
  /\ UNCHANGED <<users, sessions, client, mails, started, redeemed, diverged>>

findSession(r) ==
  /\ At(r, "findSession")
  /\ req' = IF Open(req[r].session) /\ Present(req[r].user)
            THEN [req EXCEPT ![r].step = "saveSession", ![r].late = FALSE]
            ELSE Finish(r)
  /\ UNCHANGED <<users, sessions, client, mails, started, redeemed, diverged>>

saveSession(r) ==
  LET s == req[r].session IN
  /\ At(r, "saveSession")
  /\ sessions' = [sessions EXCEPT ![s].hash = req[r].number, ![s].state = "open"]
  /\ redeemed' = [redeemed EXCEPT ![s] = @ \cup {req[r].presented}]
  /\ diverged' = IF req[r].raced THEN diverged \cup {s} ELSE diverged
  /\ req' = [sessionsWritten({s}, req) EXCEPT ![r] = [req[r] EXCEPT !.step = "reply"]]
  /\ UNCHANGED <<users, client, mails, started>>

reply_oldToken(r) ==
  LET s == req[r].session IN
  /\ At(r, "reply")
  /\ \/ client' = [client EXCEPT ![s] = req[r].presented] /\ UNCHANGED diverged
     \/ diverged' = diverged \cup {s} /\ UNCHANGED client
  /\ req' = Finish(r)
  /\ UNCHANGED <<users, sessions, mails, started, redeemed>>

\* The tokens reach the client, or the reply is lost.
reply(r) ==
  LET s == req[r].session IN
  /\ At(r, "reply")
  /\ \/ client' = [client EXCEPT ![s] = req[r].number] /\ UNCHANGED diverged
     \/ diverged' = diverged \cup {s} /\ UNCHANGED client
  /\ req' = Finish(r)
  /\ UNCHANGED <<users, sessions, mails, started, redeemed>>

logout(s) ==
  /\ SignedIn(s)
  /\ sessions' = [sessions EXCEPT ![s].state = "ended"]
  /\ client' = [client EXCEPT ![s] = 0]
  /\ req' = sessionsWritten({s}, req)
  /\ UNCHANGED <<users, mails, started, redeemed, diverged>>

-----------------------------------------------------------------------------
Progress(r) ==
  \/ saveNewUser(r) \/ deleteSessions(r) \/ readBefore(r) \/ findUser(r) \/ saveUser(r)
  \/ createSession(r) \/ readUser(r) \/ findSession(r) \/ saveSession(r) \/ reply(r)

AuthController(r) ==
  \/ \E u \in Users, p \in Passwords :
       register(r, u, p) \/ resetPassword(r, u, p) \/ validateLogin(r, u, p)
  \/ \E u \in Users : confirmEmail(r, u)
  \/ \E s \in Sessions : \/ updateProfile(r, s)
                         \/ \E p \in Passwords : update(r, s, p)
                         \/ \E h \in refreshTokens(s) : refreshToken(r, s, h)

UsersController(r) ==
  \E u \in Users, dto \in AdminDtos : createUser(r, u, dto) \/ adminUpdate(r, u, dto)

Next ==
  \/ \E r \in Requests : Progress(r) \/ AuthController(r) \/ UsersController(r)
  \/ \E u \in Users : forgotPassword(u) \/ removeUser(u)
  \/ \E s \in Sessions : logout(s)

Spec == Init /\ [][Next]_vars

-----------------------------------------------------------------------------
SessionRows == [user : Users \cup {Nobody}, hash : 0..MaxRequests,
                state : {"free", "open", "ended"}]
RequestRecords ==
  [kind : Kinds, step : Steps, user : Users \cup {Nobody}, session : Sessions \cup {0},
   number : 0..MaxRequests, presented : 0..MaxRequests, dto : Dtos, outdated : BOOLEAN,
   late : BOOLEAN, raced : BOOLEAN, doomed : SUBSET Sessions]

TypeOK ==
  /\ users \in [Users -> UserRows]
  /\ sessions \in [Sessions -> SessionRows]
  /\ client \in [Sessions -> 0..MaxRequests]
  /\ mails \subseteq {"confirm", "forgot"} \X Users
  /\ req \in [Requests -> RequestRecords]
  /\ started \in 0..MaxRequests
  /\ redeemed \in [Sessions -> SUBSET (1..MaxRequests)]
  /\ diverged \subseteq Sessions

\* A deleted account or an ended session only comes back when it went away
\* between the read and the save of one update.
NothingComesBack ==
  [][/\ \A u \in Users : users[u].state = "deleted" /\ users'[u].state # "deleted"
          => \E r \in Requests : At(r, "saveUser") /\ req[r].user = u /\ req[r].late
     /\ \A s \in Sessions : sessions[s].state = "ended" /\ sessions'[s].state # "ended"
          => \E r \in Requests : At(r, "saveSession") /\ req[r].session = s /\ req[r].late]_vars

\* What a person decided about an account stays: its password changes to one
\* somebody chose, hashed once, its role and status to those an admin or the
\* confirmation of a pending account asks for - unless the request that saves
\* them worked on a row that changed since it was read.
DecisionsAreKept ==
  [][\A u \in Users : Present(u) /\ users'[u] # users[u] =>
       \/ users'[u].state = "deleted"
       \/ \E r \in Requests :
            /\ At(r, "saveUser") /\ req[r].user = u
            /\ \/ req[r].outdated
               \/ /\ users'[u].password \in {users[u].password} \cup {Hashed(p) : p \in Passwords}
                  /\ users'[u].password # users[u].password => req[r].kind # "confirm"
                  /\ users'[u].role # users[u].role => req[r].kind = "adminUpdate"
                  /\ users'[u].status # users[u].status =>
                       \/ req[r].kind = "adminUpdate"
                       \/ req[r].kind = "confirm" /\ users[u].status = "pending"]_vars

\* Somebody who sets a new password, with a reset link or in the own profile, has
\* signed out everybody else: when it is stored the sessions that were open when the
\* request read the account are over, except the one that asked for it and those a
\* refresh that was under way has revived.  A password an admin sets ends no session.
OwnPasswordEndsSessions ==
  [][\A r \in Requests :
       At(r, "saveUser") /\ req'[r].kind = "none" /\ req[r].dto.password # NoPassword
         /\ req[r].kind \in {"reset", "update"}
       => \A s \in req[r].doomed \ diverged : sessions[s].state = "ended"]_vars

\* A refresh token is exchanged once, unless two refreshes with it overlap.
RefreshTokenIsUsedOnce ==
  [][\A r \in Requests : At(r, "saveSession") /\ req'[r].step = "reply" =>
       req[r].presented \notin redeemed[req[r].session] \/ req[r].raced]_vars

\* As long as no reply is lost and no refreshes overlap, the client of an open
\* session holds the token the server expects.
ClientCanRefresh ==
  \A s \in Sessions \ diverged :
    Open(s) /\ (\A r \in Requests : ~(At(r, "reply") /\ req[r].session = s))
      => client[s] = sessions[s].hash
=============================================================================
