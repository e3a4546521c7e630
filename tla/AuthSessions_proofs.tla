------------------------- MODULE AuthSessions_proofs -------------------------
(***************************************************************************)
(* Theorems about AuthSessions, for any accounts, passwords, requests that  *)
(* overlap, sessions and bodies that admins send.                          *)
(***************************************************************************)
EXTENDS AuthSessions, TLAPS

USE BoundsAssumption, RowsAssumption, UndefinedAssumption, BodiesAssumption

(* Which steps a request of a kind takes, and what it carries there.       *)
StepsOf ==
  [none |-> {"idle"}, register |-> {"saveNew"}, create |-> {"saveNew"},
   login |-> {"createSession", "reply"},
   refresh |-> {"readUser", "findSession", "saveSession", "reply"},
   confirm |-> {"before", "find", "saveUser"},
   reset |-> {"deleteSessions", "before", "find", "saveUser"},
   update |-> {"deleteSessions", "before", "find", "saveUser"},
   adminUpdate |-> {"find", "saveUser"}]
HasSession(r) == req[r].kind = "refresh" \/ At(r, "reply")
Shaped(r) ==
  /\ req[r].step \in StepsOf[req[r].kind]
  /\ req[r].kind # "none" => req[r].number # 0
  /\ req[r].kind = "refresh" => req[r].presented # 0
  /\ HasSession(r) => req[r].session \in Sessions
  /\ At(r, "saveNew") => req[r].user \in Users
  /\ At(r, "saveNew") => [state |-> "present", status |-> req[r].dto.status,
                          role |-> req[r].dto.role, password |-> req[r].dto.password] \in UserRows
Typed == TypeOK /\ \A r \in Requests : Shaped(r)

LEMMA NewRequestTypes ==
  ASSUME NEW kind \in Kinds, NEW step \in Steps, NEW u \in Users \cup {Nobody}
  PROVE  NewRequest(kind, step, u) \in RequestRecords
BY DEF NewRequest, RequestRecords, NoChange, NoPassword, Dtos

LEMMA StartTypes ==
  ASSUME Typed, NEW r \in Requests, NEW request \in RequestRecords, Start(r, request)
  PROVE  /\ started' \in 0..MaxRequests /\ started' = started + 1
         /\ req' \in [Requests -> RequestRecords]
         /\ req'[r] = [request EXCEPT !.number = started + 1]
         /\ \A q \in Requests \ {r} : req'[q] = req[q]
<1>1. /\ started \in 0..MaxRequests /\ started < MaxRequests
      /\ req \in [Requests -> RequestRecords]
  BY DEF Typed, TypeOK, Start
<1>2. [request EXCEPT !.number = started + 1] \in RequestRecords
  BY <1>1 DEF RequestRecords
<1> QED
  BY <1>1, <1>2 DEF Start

LEMMA DtoTypes ==
  ASSUME Typed
  PROVE  /\ \A p \in Passwords : Chosen(p) \in Passphrases /\ Hashed(p) \in Passphrases
         /\ \A p \in Passwords : [NoChange EXCEPT !.password = Chosen(p)] \in Dtos
         /\ \A status \in Statuses \cup {Undefined}, role \in Roles \cup {Undefined},
              password \in Passphrases :
              [status |-> status, role |-> role, password |-> password] \in Dtos
         /\ \A dto \in Dtos, p \in Passphrases \cup {NoPassword} : [dto EXCEPT !.password = p] \in Dtos
         /\ NoChange \in Dtos
BY DEF Chosen, Hashed, Passphrases, Dtos, NoChange, NoPassword

LEMMA SaveTypes ==
  ASSUME Typed, NEW u, NEW password \in Passphrases \cup {NoPassword}
  PROVE  passwordToSave(password, u) \in Passphrases \cup {NoPassword}
BY DEF passwordToSave, Passphrases, NoPassword

LEMMA SavedUserTypes ==
  ASSUME Typed, NEW row \in UserRows, NEW dto \in Dtos
  PROVE  savedUser(row, dto) \in UserRows
BY DEF savedUser, UserRows, Dtos

LEMMA FlagTypes ==
  ASSUME NEW x \in RequestRecords, NEW a \in BOOLEAN, NEW b \in BOOLEAN
  PROVE  /\ [x EXCEPT !.outdated = a, !.late = b] \in RequestRecords
         /\ [x EXCEPT !.late = a, !.raced = b] \in RequestRecords
BY DEF RequestRecords

(* A request of which only flags have been raised.                         *)
SameCall(x, y) ==
  /\ y.kind = x.kind /\ y.step = x.step /\ y.user = x.user /\ y.session = x.session
  /\ y.number = x.number /\ y.presented = x.presented /\ y.dto = x.dto /\ y.doomed = x.doomed
  /\ (x.outdated => y.outdated) /\ (x.late => y.late) /\ (x.raced => y.raced)

LEMMA UserWritten ==
  ASSUME NEW u, NEW q \in [Requests -> RequestRecords]
  PROVE  /\ userWritten(u, q) \in [Requests -> RequestRecords]
         /\ \A r \in Requests :
              /\ SameCall(q[r], userWritten(u, q)[r])
              /\ q[r].user # u => userWritten(u, q)[r] = q[r]
              /\ userWritten(u, q)[r].raced = q[r].raced
              /\ q[r].user = u =>
                   /\ userWritten(u, q)[r].outdated
                   /\ q[r].kind # "refresh" => userWritten(u, q)[r].late
<1> SUFFICES ASSUME NEW r \in Requests
             PROVE  /\ userWritten(u, q)[r] \in RequestRecords
                    /\ SameCall(q[r], userWritten(u, q)[r])
                    /\ q[r].user # u => userWritten(u, q)[r] = q[r]
                    /\ userWritten(u, q)[r].raced = q[r].raced
                    /\ q[r].user = u =>
                         /\ userWritten(u, q)[r].outdated
                         /\ q[r].kind # "refresh" => userWritten(u, q)[r].late
  BY DEF userWritten
<1> DEFINE late == q[r].late \/ q[r].kind # "refresh"
<1>1. q[r] \in RequestRecords
  OBVIOUS
<1>2. CASE q[r].user = u
  <2>1. userWritten(u, q)[r] = [q[r] EXCEPT !.outdated = TRUE, !.late = late]
    BY <1>2 DEF userWritten
  <2>2. late \in BOOLEAN /\ TRUE \in BOOLEAN
    OBVIOUS
  <2>3. userWritten(u, q)[r] \in RequestRecords
    BY <1>1, <2>1, <2>2, FlagTypes, Zenon
  <2> HIDE DEF late
  <2>4. /\ SameCall(q[r], [q[r] EXCEPT !.outdated = TRUE, !.late = late])
        /\ [q[r] EXCEPT !.outdated = TRUE, !.late = late].outdated
        /\ [q[r] EXCEPT !.outdated = TRUE, !.late = late].late = late
        /\ [q[r] EXCEPT !.outdated = TRUE, !.late = late].raced = q[r].raced
    <3>1. q[r].late => late
      BY DEF late
    <3> QED
      BY <1>1, <3>1 DEF RequestRecords, SameCall
  <2>5. q[r].kind # "refresh" => late = TRUE
    BY DEF late
  <2> QED
    BY <1>2, <2>1, <2>3, <2>4, <2>5
<1>3. CASE q[r].user # u
  BY <1>1, <1>3 DEF userWritten, SameCall
<1> QED
  BY <1>2, <1>3

LEMMA SessionsWritten ==
  ASSUME NEW S, NEW q \in [Requests -> RequestRecords]
  PROVE  /\ sessionsWritten(S, q) \in [Requests -> RequestRecords]
         /\ \A r \in Requests :
              /\ SameCall(q[r], sessionsWritten(S, q)[r])
              /\ sessionsWritten(S, q)[r].outdated = q[r].outdated
              /\ ~(q[r].kind = "refresh" /\ q[r].session \in S) => sessionsWritten(S, q)[r] = q[r]
              /\ q[r].kind = "refresh" /\ q[r].session \in S =>
                   sessionsWritten(S, q)[r].late /\ sessionsWritten(S, q)[r].raced
<1> SUFFICES ASSUME NEW r \in Requests
             PROVE  /\ sessionsWritten(S, q)[r] \in RequestRecords
                    /\ SameCall(q[r], sessionsWritten(S, q)[r])
                    /\ sessionsWritten(S, q)[r].outdated = q[r].outdated
                    /\ ~(q[r].kind = "refresh" /\ q[r].session \in S) => sessionsWritten(S, q)[r] = q[r]
                    /\ q[r].kind = "refresh" /\ q[r].session \in S =>
                         sessionsWritten(S, q)[r].late /\ sessionsWritten(S, q)[r].raced
  BY DEF sessionsWritten
<1>1. q[r] \in RequestRecords
  OBVIOUS
<1>2. CASE q[r].kind = "refresh" /\ q[r].session \in S
  <2>1. sessionsWritten(S, q)[r] = [q[r] EXCEPT !.late = TRUE, !.raced = TRUE]
    BY <1>2 DEF sessionsWritten
  <2>2. sessionsWritten(S, q)[r] \in RequestRecords
    BY <1>1, <2>1, TRUE \in BOOLEAN, FlagTypes, Zenon
  <2> QED
    BY <1>1, <1>2, <2>1, <2>2 DEF RequestRecords, SameCall
<1>3. CASE ~(q[r].kind = "refresh" /\ q[r].session \in S)
  BY <1>1, <1>3 DEF sessionsWritten, SameCall
<1> QED
  BY <1>2, <1>3

LEMMA IdleTypes == Idle \in RequestRecords
BY NewRequestTypes DEF Idle, Kinds, Steps

-----------------------------------------------------------------------------
(* How requests begin.                                                     *)

begins(r, kind, step, u, session, presented, dto, doomed) ==
  /\ req[r].kind = "none" /\ started < MaxRequests /\ started' = started + 1
  /\ \A q \in Requests \ {r} : req'[q] = req[q]
  /\ req'[r].kind = kind /\ req'[r].step = step /\ req'[r].user = u
  /\ req'[r].session = session /\ req'[r].number = started + 1
  /\ req'[r].presented = presented /\ req'[r].dto = dto /\ req'[r].doomed = doomed
  /\ ~req'[r].outdated /\ ~req'[r].late /\ ~req'[r].raced

typedBegin(r, kind, step, u, session, presented, dto, doomed) ==
  /\ req' \in [Requests -> RequestRecords]
  /\ started' \in 0..MaxRequests
  /\ begins(r, kind, step, u, session, presented, dto, doomed)

LEMMA Begins ==
  ASSUME Typed, NEW r \in Requests, NEW request \in RequestRecords, Start(r, request),
         ~request.outdated, ~request.late, ~request.raced
  PROVE  typedBegin(r, request.kind, request.step, request.user, request.session,
                    request.presented, request.dto, request.doomed)
<1>1. /\ req'[r] = [request EXCEPT !.number = started + 1]
      /\ req' \in [Requests -> RequestRecords] /\ started' \in 0..MaxRequests
      /\ started' = started + 1 /\ \A q \in Requests \ {r} : req'[q] = req[q]
  BY StartTypes
<1>2. req[r].kind = "none" /\ started < MaxRequests
  BY DEF Start
<1> QED
  BY <1>1, <1>2 DEF begins, typedBegin, RequestRecords

(* The forms in which the actions build their requests.                    *)
Filled(y, x, session, presented, dto, doomed) ==
  /\ y \in RequestRecords /\ y.kind = x.kind /\ y.step = x.step /\ y.user = x.user
  /\ y.outdated = x.outdated /\ y.late = x.late /\ y.raced = x.raced
  /\ y.session = session /\ y.presented = presented /\ y.dto = dto /\ y.doomed = doomed

LEMMA NewRequestFields ==
  ASSUME NEW kind \in Kinds, NEW step \in Steps, NEW u \in Users \cup {Nobody},
         NEW N, N = NewRequest(kind, step, u)
  PROVE  /\ N \in RequestRecords /\ N.kind = kind /\ N.step = step /\ N.user = u
         /\ N.session = 0 /\ N.presented = 0 /\ N.dto = NoChange /\ N.doomed = {}
         /\ ~N.outdated /\ ~N.late /\ ~N.raced /\ N.number = 0
<1>1. N \in RequestRecords
  BY NewRequestTypes
<1>2. N = [kind |-> kind, step |-> step, user |-> u, session |-> 0, number |-> 0,
           presented |-> 0, dto |-> NoChange, outdated |-> FALSE, late |-> FALSE,
           raced |-> FALSE, doomed |-> {}]
  BY DEF NewRequest
<1>3. /\ N.kind = kind /\ N.step = step /\ N.user = u
      /\ N.session = 0 /\ N.presented = 0 /\ N.dto = NoChange /\ N.doomed = {} /\ N.number = 0
  BY <1>2
<1>4. ~N.outdated /\ ~N.late /\ ~N.raced
  BY <1>2
<1> QED
  BY <1>1, <1>3, <1>4

LEMMA FilledBegins ==
  ASSUME Typed, NEW r \in Requests, NEW kind \in Kinds, NEW step \in Steps,
         NEW u \in Users \cup {Nobody}, NEW session, NEW presented, NEW dto, NEW doomed,
         NEW N, N = NewRequest(kind, step, u), NEW request, Start(r, request),
         Filled(request, N, session, presented, dto, doomed)
  PROVE  typedBegin(r, kind, step, u, session, presented, dto, doomed)
<1>1. /\ N.kind = kind /\ N.step = step /\ N.user = u
      /\ ~N.outdated /\ ~N.late /\ ~N.raced
  BY NewRequestFields
<1>2. /\ request \in RequestRecords /\ ~request.outdated /\ ~request.late
      /\ ~request.raced /\ request.kind = kind /\ request.step = step /\ request.user = u
      /\ request.session = session /\ request.presented = presented /\ request.dto = dto
      /\ request.doomed = doomed
  BY <1>1 DEF Filled
<1>3. typedBegin(r, request.kind, request.step, request.user, request.session,
                    request.presented, request.dto, request.doomed)
  BY <1>2, Begins
<1> QED
  BY <1>2, <1>3

LEMMA BeginRegister ==
  ASSUME Typed, NEW r \in Requests, NEW u \in Users, NEW p \in Passwords, register(r, u, p),
         NEW dto, dto = [status |-> "pending", role |-> "user", password |-> Hashed(p)]
  PROVE  typedBegin(r, "register", "saveNew", u, 0, 0, dto, {}) /\ dto \in Dtos
<1>0. dto \in Dtos /\ "register" \in Kinds /\ "saveNew" \in Steps
  BY DtoTypes DEF Statuses, Roles, Kinds, Steps
<1>1. PICK N : N = NewRequest("register", "saveNew", u)
  OBVIOUS
<1>2. PICK y : y = [N EXCEPT !.dto = dto]
  OBVIOUS
<1>3. Start(r, y)
  BY <1>1, <1>2, Zenon DEF register
<1>4. N \in RequestRecords /\ N.session = 0 /\ N.presented = 0 /\ N.doomed = {}
  BY <1>0, <1>1, NewRequestFields
<1>5. Filled(y, N, 0, 0, dto, {})
  BY <1>0, <1>2, <1>4 DEF Filled, RequestRecords
<1> QED
  BY <1>0, <1>1, <1>3, <1>5, FilledBegins

LEMMA BeginCreate ==
  ASSUME Typed, NEW r \in Requests, NEW u \in Users, NEW body \in AdminDtos, createUser(r, u, body),
         NEW dto, dto = [body EXCEPT !.password = Hashed(body.password.of)]
  PROVE  typedBegin(r, "create", "saveNew", u, 0, 0, dto, {}) /\ dto \in Dtos
<1>0. "create" \in Kinds /\ "saveNew" \in Steps
  BY DEF Kinds, Steps
<1>T. dto \in Dtos
  <2>1. body \in Dtos /\ body.password.of \in Passwords
    BY DEF createUser, IsChosen, Dtos, Passphrases, NoPassword
  <2> QED
    BY <2>1, DtoTypes
<1>1. PICK N : N = NewRequest("create", "saveNew", u)
  OBVIOUS
<1>2. PICK y : y = [N EXCEPT !.dto = dto]
  OBVIOUS
<1>3. Start(r, y)
  BY <1>1, <1>2, Zenon DEF createUser
<1>4. /\ N \in RequestRecords /\ N.session = 0 /\ N.presented = 0 /\ N.dto = NoChange
      /\ N.doomed = {}
  BY <1>0, <1>1, <1>T, NewRequestFields
<1>5. Filled(y, N, 0, 0, dto, {})
  BY <1>2, <1>4, <1>T DEF Filled, RequestRecords
<1> QED
  BY <1>0, <1>1, <1>3, <1>5, <1>T, FilledBegins

LEMMA BeginConfirm ==
  ASSUME Typed, NEW r \in Requests, NEW u \in Users, confirmEmail(r, u),
         NEW dto, dto = [status |-> "inactive", role |-> users[u].role,
                    password |-> users[u].password]
  PROVE  typedBegin(r, "confirm", "before", u, 0, 0, dto, {}) /\ dto \in Dtos
<1>0. "confirm" \in Kinds /\ "before" \in Steps
  BY DEF Kinds, Steps
<1>T. dto \in Dtos
  <2>1. users[u] \in UserRows
    BY DEF Typed, TypeOK
  <2>2. /\ users[u].role \in Roles \cup {Undefined} /\ users[u].password \in Passphrases
        /\ "inactive" \in Statuses
    BY <2>1 DEF UserRows, Statuses
  <2> QED
    BY <2>2, DtoTypes
<1>1. PICK N : N = NewRequest("confirm", "before", u)
  OBVIOUS
<1>2. PICK y : y = [N EXCEPT !.dto = dto]
  OBVIOUS
<1>3. Start(r, y)
  BY <1>1, <1>2, Zenon DEF confirmEmail
<1>4. /\ N \in RequestRecords /\ N.session = 0 /\ N.presented = 0 /\ N.dto = NoChange
      /\ N.doomed = {}
  BY <1>0, <1>1, <1>T, NewRequestFields
<1>5. Filled(y, N, 0, 0, dto, {})
  BY <1>2, <1>4, <1>T DEF Filled, RequestRecords
<1> QED
  BY <1>0, <1>1, <1>3, <1>5, <1>T, FilledBegins

LEMMA BeginReset ==
  ASSUME Typed, NEW r \in Requests, NEW u \in Users, NEW p \in Passwords, resetPassword(r, u, p),
         NEW dto, dto = [status |-> users[u].status, role |-> users[u].role, password |-> Chosen(p)]
  PROVE  typedBegin(r, "reset", "deleteSessions", u, 0, 0, dto, SessionsOf(u)) /\ dto \in Dtos
<1>0. "reset" \in Kinds /\ "deleteSessions" \in Steps
  BY DEF Kinds, Steps
<1>T. dto \in Dtos /\ SessionsOf(u) \in SUBSET Sessions
  <2>1. users[u] \in UserRows
    BY DEF Typed, TypeOK
  <2>2. /\ users[u].status \in Statuses \cup {Undefined}
        /\ users[u].role \in Roles \cup {Undefined} /\ Chosen(p) \in Passphrases
    BY <2>1, DtoTypes DEF UserRows
  <2>3. SessionsOf(u) \in SUBSET Sessions
    BY DEF SessionsOf
  <2> QED
    BY <2>2, <2>3, DtoTypes
<1>1. PICK N : N = NewRequest("reset", "deleteSessions", u)
  OBVIOUS
<1>2. PICK y : y = [N EXCEPT !.dto = dto, !.doomed = SessionsOf(u)]
  OBVIOUS
<1>3. Start(r, y)
  BY <1>1, <1>2, Zenon DEF resetPassword
<1>4. /\ N \in RequestRecords /\ N.session = 0 /\ N.presented = 0 /\ N.dto = NoChange
      /\ N.doomed = {}
  BY <1>0, <1>1, <1>T, NewRequestFields
<1>5. Filled(y, N, 0, 0, dto, SessionsOf(u))
  BY <1>2, <1>4, <1>T DEF Filled, RequestRecords
<1> QED
  BY <1>0, <1>1, <1>3, <1>5, <1>T, FilledBegins

LEMMA BeginUpdate ==
  ASSUME Typed, NEW r \in Requests, NEW s \in Sessions, NEW p \in Passwords,
         NEW u, u = sessions[s].user, update(r, s, p),
         NEW dto, dto = [NoChange EXCEPT !.password = Chosen(p)]
  PROVE  typedBegin(r, "update", "deleteSessions", u, s, 0, dto, SessionsOf(u) \ {s}) /\ dto \in Dtos
<1>0. "update" \in Kinds /\ "deleteSessions" \in Steps
  BY DEF Kinds, Steps
<1>T. dto \in Dtos /\ u \in Users /\ SessionsOf(u) \ {s} \in SUBSET Sessions
  BY DtoTypes DEF update, Present, SessionsOf
<1>1. PICK N : N = NewRequest("update", "deleteSessions", u)
  OBVIOUS
<1>2. PICK y : y = [N EXCEPT !.session = s, !.dto = dto, !.doomed = SessionsOf(u) \ {s}]
  OBVIOUS
<1>3. Start(r, y)
  BY <1>1, <1>2, Zenon DEF update
<1>4. /\ N \in RequestRecords /\ N.session = 0 /\ N.presented = 0 /\ N.dto = NoChange
      /\ N.doomed = {}
  BY <1>0, <1>1, <1>T, NewRequestFields
<1>5. Filled(y, N, s, 0, dto, SessionsOf(u) \ {s})
  BY <1>2, <1>4, <1>T DEF Filled, RequestRecords
<1> QED
  BY <1>0, <1>1, <1>3, <1>5, <1>T, FilledBegins

LEMMA BeginProfile ==
  ASSUME Typed, NEW r \in Requests, NEW s \in Sessions,
         NEW u, u = sessions[s].user, updateProfile(r, s)
  PROVE  typedBegin(r, "update", "before", u, s, 0, NoChange, {})
<1>0. "update" \in Kinds /\ "before" \in Steps
  BY DEF Kinds, Steps
<1>T. u \in Users
  BY DEF updateProfile, Present
<1>1. PICK N : N = NewRequest("update", "before", u)
  OBVIOUS
<1>2. PICK y : y = [N EXCEPT !.session = s]
  OBVIOUS
<1>3. Start(r, y)
  BY <1>1, <1>2, Zenon DEF updateProfile
<1>4. /\ N \in RequestRecords /\ N.session = 0 /\ N.presented = 0 /\ N.dto = NoChange
      /\ N.doomed = {}
  BY <1>0, <1>1, <1>T, NewRequestFields
<1>5. Filled(y, N, s, 0, NoChange, {})
  BY <1>2, <1>4, <1>T DEF Filled, RequestRecords
<1> QED
  BY <1>0, <1>1, <1>3, <1>5, <1>T, FilledBegins

LEMMA BeginAdmin ==
  ASSUME Typed, NEW r \in Requests, NEW u \in Users, NEW body \in AdminDtos, adminUpdate(r, u, body),
         NEW dto, dto = [body EXCEPT !.password = passwordToSave(body.password, u)]
  PROVE  typedBegin(r, "adminUpdate", "find", u, 0, 0, dto, {}) /\ dto \in Dtos
<1>0. "adminUpdate" \in Kinds /\ "find" \in Steps
  BY DEF Kinds, Steps
<1>T. dto \in Dtos
  <2>1. body \in Dtos /\ body.password \in Passphrases \cup {NoPassword}
    BY DEF Dtos
  <2>2. passwordToSave(body.password, u) \in Passphrases \cup {NoPassword}
    BY <2>1, SaveTypes
  <2> QED
    BY <2>1, <2>2, DtoTypes
<1>1. PICK N : N = NewRequest("adminUpdate", "find", u)
  OBVIOUS
<1>2. PICK y : y = [N EXCEPT !.dto = dto]
  OBVIOUS
<1>3. Start(r, y)
  BY <1>1, <1>2, Zenon DEF adminUpdate
<1>4. /\ N \in RequestRecords /\ N.session = 0 /\ N.presented = 0 /\ N.dto = NoChange
      /\ N.doomed = {}
  BY <1>0, <1>1, <1>T, NewRequestFields
<1>5. Filled(y, N, 0, 0, dto, {})
  BY <1>2, <1>4, <1>T DEF Filled, RequestRecords
<1> QED
  BY <1>0, <1>1, <1>3, <1>5, <1>T, FilledBegins

LEMMA BeginLogin ==
  ASSUME Typed, NEW r \in Requests, NEW u \in Users, NEW p \in Passwords, validateLogin(r, u, p)
  PROVE  typedBegin(r, "login", "createSession", u, 0, 0, NoChange, {})
<1>0. "login" \in Kinds /\ "createSession" \in Steps
  BY DEF Kinds, Steps
<1>T. NoChange \in Dtos
  BY DtoTypes
<1>1. PICK N : N = NewRequest("login", "createSession", u)
  OBVIOUS
<1>2. PICK y : y = N
  OBVIOUS
<1>3. Start(r, y)
  BY <1>1, <1>2, Zenon DEF validateLogin
<1>4. /\ N \in RequestRecords /\ N.session = 0 /\ N.presented = 0 /\ N.dto = NoChange
      /\ N.doomed = {}
  BY <1>0, <1>1, <1>T, NewRequestFields
<1>5. Filled(y, N, 0, 0, NoChange, {})
  BY <1>2, <1>4, <1>T DEF Filled, RequestRecords
<1> QED
  BY <1>0, <1>1, <1>3, <1>5, <1>T, FilledBegins

LEMMA BeginRefresh ==
  ASSUME Typed, NEW r \in Requests, NEW s \in Sessions, NEW h \in refreshTokens(s),
         NEW u, u = sessions[s].user, refreshToken(r, s, h)
  PROVE  typedBegin(r, "refresh", "readUser", u, s, h, NoChange, {})
<1>0. "refresh" \in Kinds /\ "readUser" \in Steps
  BY DEF Kinds, Steps
<1>T. u \in Users /\ h \in 0..MaxRequests /\ h # 0 /\ h \in Nat
  BY DEF refreshToken, Present, refreshTokens, Typed, TypeOK
<1>1. PICK N : N = NewRequest("refresh", "readUser", u)
  OBVIOUS
<1>2. PICK y : y = [N EXCEPT !.session = s, !.presented = h]
  OBVIOUS
<1>3. Start(r, y)
  BY <1>1, <1>2, Zenon DEF refreshToken
<1>4. /\ N \in RequestRecords /\ N.session = 0 /\ N.presented = 0 /\ N.dto = NoChange
      /\ N.doomed = {}
  BY <1>0, <1>1, <1>T, NewRequestFields
<1>5. Filled(y, N, s, h, NoChange, {})
  BY <1>2, <1>4, <1>T DEF Filled, RequestRecords
<1> QED
  BY <1>0, <1>1, <1>3, <1>5, <1>T, FilledBegins

-----------------------------------------------------------------------------
(* Type correctness.                                                       *)

LEMMA SameShape ==
  ASSUME NEW q \in Requests, SameCall(req[q], req'[q]), Shaped(q)
  PROVE  Shaped(q)'
BY DEF SameCall, Shaped, HasSession, At

LEMMA IdleFields ==
  /\ Idle.kind = "none" /\ Idle.step = "idle" /\ Idle.user = Nobody /\ Idle.session = 0
  /\ Idle.number = 0 /\ Idle.presented = 0 /\ Idle.doomed = {}
  /\ ~Idle.raced /\ ~Idle.late /\ ~Idle.outdated
BY DEF Idle, NewRequest

LEMMA IdleShape ==
  ASSUME NEW q \in Requests, req'[q] = Idle
  PROVE  Shaped(q)'
BY IdleFields DEF Shaped, HasSession, At, StepsOf

(* A request that has begun is well typed, if its shape is.                *)
LEMMA BeginTyped ==
  ASSUME Typed, NEW r \in Requests, NEW kind, NEW step, NEW u, NEW session, NEW presented,
         NEW dto, NEW doomed, typedBegin(r, kind, step, u, session, presented, dto, doomed),
         step \in StepsOf[kind], step # "reply",
         kind = "refresh" => session \in Sessions /\ presented # 0,
         step = "saveNew" => u \in Users,
         step = "saveNew" => [state |-> "present", status |-> dto.status, role |-> dto.role,
                              password |-> dto.password] \in UserRows,
         UNCHANGED <<users, sessions, client, mails, redeemed, diverged>>
  PROVE  Typed'
<1>1. started \in 0..MaxRequests
  BY DEF Typed, TypeOK
<1>2. Shaped(r)'
  BY <1>1 DEF typedBegin, begins, Shaped, HasSession, At
<1>3. ASSUME NEW q \in Requests \ {r} PROVE Shaped(q)'
  BY <1>3 DEF typedBegin, begins, Shaped, HasSession, At, Typed
<1>4. TypeOK'
  BY DEF typedBegin, Typed, TypeOK
<1> QED
  BY <1>2, <1>3, <1>4 DEF Typed

LEMMA BeginsTyped ==
  ASSUME Typed, NEW r \in Requests, AuthController(r) \/ UsersController(r)
  PROVE  Typed'
<1>1. ASSUME NEW u \in Users, NEW p \in Passwords, register(r, u, p) PROVE Typed'
  <2>1. PICK dto : dto = [status |-> "pending", role |-> "user", password |-> Hashed(p)]
    OBVIOUS
  <2>2. [state |-> "present", status |-> dto.status, role |-> dto.role, password |-> dto.password]
          \in UserRows
    BY <2>1, DtoTypes DEF UserRows, Statuses, Roles
  <2>3. "saveNew" \in StepsOf["register"]
    BY DEF StepsOf
  <2> QED
    BY <1>1, <2>1, <2>2, <2>3, BeginRegister, BeginTyped DEF register
<1>2. ASSUME NEW u \in Users, NEW p \in Passwords, resetPassword(r, u, p) PROVE Typed'
  <2>1. "deleteSessions" \in StepsOf["reset"]
    BY DEF StepsOf
  <2> QED
    BY <1>2, <2>1, BeginReset, BeginTyped DEF resetPassword
<1>3. ASSUME NEW u \in Users, NEW p \in Passwords, validateLogin(r, u, p) PROVE Typed'
  <2>1. "createSession" \in StepsOf["login"]
    BY DEF StepsOf
  <2> QED
    BY <1>3, <2>1, BeginLogin, BeginTyped DEF validateLogin
<1>4. ASSUME NEW u \in Users, confirmEmail(r, u) PROVE Typed'
  <2>1. "before" \in StepsOf["confirm"]
    BY DEF StepsOf
  <2> QED
    BY <1>4, <2>1, BeginConfirm, BeginTyped DEF confirmEmail
<1>5. ASSUME NEW s \in Sessions, updateProfile(r, s) PROVE Typed'
  <2>1. "before" \in StepsOf["update"]
    BY DEF StepsOf
  <2> QED
    BY <1>5, <2>1, BeginProfile, BeginTyped DEF updateProfile
<1>6. ASSUME NEW s \in Sessions, NEW p \in Passwords, update(r, s, p) PROVE Typed'
  <2>1. "deleteSessions" \in StepsOf["update"]
    BY DEF StepsOf
  <2> QED
    BY <1>6, <2>1, BeginUpdate, BeginTyped DEF update
<1>7. ASSUME NEW s \in Sessions, NEW h \in refreshTokens(s), refreshToken(r, s, h) PROVE Typed'
  <2>1. "readUser" \in StepsOf["refresh"] /\ h # 0
    BY DEF StepsOf, refreshTokens, Typed, TypeOK
  <2>0. PICK u : u = sessions[s].user
    OBVIOUS
  <2>2. typedBegin(r, "refresh", "readUser", u, s, h, NoChange, {})
    BY <1>7, <2>0, BeginRefresh
  <2>3. UNCHANGED <<users, sessions, client, mails, redeemed, diverged>>
    BY <1>7 DEF refreshToken
  <2> QED
    BY <2>1, <2>2, <2>3, BeginTyped
<1>8. ASSUME NEW u \in Users, NEW body \in AdminDtos, createUser(r, u, body) PROVE Typed'
  <2>1. PICK dto : dto = [body EXCEPT !.password = Hashed(body.password.of)]
    OBVIOUS
  <2>2. [state |-> "present", status |-> dto.status, role |-> dto.role, password |-> dto.password]
          \in UserRows
    <3>1. body \in Dtos /\ body.password.of \in Passwords
      BY <1>8 DEF createUser, IsChosen, Dtos, Passphrases, NoPassword
    <3>2. dto.status = body.status /\ dto.role = body.role /\ dto.password \in Passphrases
      BY <2>1, <3>1, DtoTypes DEF Dtos
    <3> QED
      BY <3>1, <3>2 DEF UserRows, Dtos
  <2>3. "saveNew" \in StepsOf["create"]
    BY DEF StepsOf
  <2> QED
    BY <1>8, <2>1, <2>2, <2>3, BeginCreate, BeginTyped DEF createUser
<1>9. ASSUME NEW u \in Users, NEW body \in AdminDtos, adminUpdate(r, u, body) PROVE Typed'
  <2>1. "find" \in StepsOf["adminUpdate"]
    BY DEF StepsOf
  <2> QED
    BY <1>9, <2>1, BeginAdmin, BeginTyped DEF adminUpdate
<1> QED
  BY <1>1, <1>2, <1>3, <1>4, <1>5, <1>6, <1>7, <1>8, <1>9 DEF AuthController, UsersController

(* How requests go on and end.                                             *)
moves(r, step) ==
  /\ req' \in [Requests -> RequestRecords]
  /\ \A q \in Requests \ {r} : SameCall(req[q], req'[q])
  /\ req'[r].step = step
  /\ req'[r].kind = req[r].kind /\ req'[r].user = req[r].user /\ req'[r].session = req[r].session
  /\ req'[r].number = req[r].number /\ req'[r].presented = req[r].presented
  /\ req'[r].doomed = req[r].doomed
  /\ req'[r].outdated = req[r].outdated /\ req'[r].raced = req[r].raced
ends(r) ==
  /\ req' \in [Requests -> RequestRecords]
  /\ \A q \in Requests \ {r} : SameCall(req[q], req'[q])
  /\ SameCall(Idle, req'[r])

LEMMA Goes ==
  ASSUME Typed, NEW r \in Requests, NEW step \in Steps, req' = Goto(r, step)
  PROVE  /\ moves(r, step) /\ \A q \in Requests \ {r} : req'[q] = req[q]
         /\ req'[r].dto = req[r].dto /\ req'[r].late = req[r].late
<1>1. req \in [Requests -> RequestRecords] /\ req[r] \in RequestRecords
  BY DEF Typed, TypeOK
<1>2. req' = [req EXCEPT ![r].step = step]
  BY DEF Goto
<1>3. \A q \in Requests \ {r} : req'[q] = req[q]
  BY <1>1, <1>2
<1>4. [req[r] EXCEPT !.step = step] \in RequestRecords
  BY <1>1 DEF RequestRecords
<1>5. req' \in [Requests -> RequestRecords]
  BY <1>1, <1>2, <1>4
<1>6. req'[r] = [req[r] EXCEPT !.step = step]
  BY <1>1, <1>2
<1>7. /\ req'[r].step = step /\ req'[r].kind = req[r].kind /\ req'[r].user = req[r].user
      /\ req'[r].session = req[r].session /\ req'[r].number = req[r].number
      /\ req'[r].presented = req[r].presented /\ req'[r].doomed = req[r].doomed
      /\ req'[r].outdated = req[r].outdated /\ req'[r].raced = req[r].raced
      /\ req'[r].dto = req[r].dto /\ req'[r].late = req[r].late
  BY <1>1, <1>6 DEF RequestRecords
<1> QED
  BY <1>3, <1>5, <1>7 DEF moves, SameCall

LEMMA Ends ==
  ASSUME Typed, NEW r \in Requests, req' = Finish(r)
  PROVE  ends(r) /\ \A q \in Requests \ {r} : req'[q] = req[q]
<1>1. /\ req' = [req EXCEPT ![r] = Idle] /\ req \in [Requests -> RequestRecords]
  BY DEF Finish, Typed, TypeOK
<1>2. /\ req' \in [Requests -> RequestRecords] /\ req'[r] = Idle
      /\ \A q \in Requests \ {r} : req'[q] = req[q]
  BY <1>1, IdleTypes
<1> QED
  BY <1>2 DEF ends, SameCall

(* The same when the account or a session was written.                     *)
LEMMA EndsWritten ==
  ASSUME Typed, NEW r \in Requests, NEW u, req' = userWritten(u, Finish(r))
  PROVE  /\ ends(r)
         /\ \A q \in Requests \ {r} :
              /\ req[q].user # u => req'[q] = req[q]
              /\ req'[q].raced = req[q].raced
              /\ req[q].user = u => req'[q].outdated /\ (req[q].kind # "refresh" => req'[q].late)
         /\ req'[r].raced = Idle.raced
<1>1. PICK R : R = Finish(r)
  OBVIOUS
<1>2. /\ R = [req EXCEPT ![r] = Idle] /\ req \in [Requests -> RequestRecords]
  BY <1>1 DEF Finish, Typed, TypeOK
<1>3. /\ R \in [Requests -> RequestRecords] /\ R[r] = Idle
      /\ \A q \in Requests \ {r} : R[q] = req[q]
  BY <1>2, IdleTypes
<1>4. req' = userWritten(u, R)
  BY <1>1
<1> QED
  BY <1>3, <1>4, UserWritten DEF ends

LEMMA MovesTyped ==
  ASSUME Typed, NEW r \in Requests, NEW step, moves(r, step),
         step \in StepsOf[req[r].kind], step # "saveNew",
         step = "reply" => req[r].session \in Sessions
  PROVE  \A q \in Requests : Shaped(q)'
<1>1. Shaped(r)'
  BY DEF moves, Shaped, HasSession, At, Typed
<1>2. ASSUME NEW q \in Requests \ {r} PROVE Shaped(q)'
  BY <1>2, SameShape DEF moves, Typed
<1> QED
  BY <1>1, <1>2

LEMMA EndsTyped ==
  ASSUME Typed, NEW r \in Requests, ends(r)
  PROVE  \A q \in Requests : Shaped(q)'
<1>1. Shaped(r)'
  BY IdleFields DEF ends, SameCall, Shaped, HasSession, At, StepsOf
<1>2. ASSUME NEW q \in Requests \ {r} PROVE Shaped(q)'
  BY <1>2, SameShape DEF ends, Typed
<1> QED
  BY <1>1, <1>2

(* The kinds of requests that stand at a step.                             *)
LEMMA KindsAt ==
  ASSUME Typed, NEW r \in Requests
  PROVE  /\ At(r, "saveNew") => req[r].kind \in {"register", "create"}
         /\ At(r, "createSession") => req[r].kind = "login"
         /\ At(r, "readUser") \/ At(r, "findSession") \/ At(r, "saveSession") => req[r].kind = "refresh"
         /\ At(r, "reply") => req[r].kind \in {"login", "refresh"}
         /\ At(r, "deleteSessions") => req[r].kind \in {"reset", "update"}
         /\ At(r, "before") => req[r].kind \in {"confirm", "reset", "update"}
         /\ At(r, "find") \/ At(r, "saveUser") => req[r].kind \in {"confirm", "reset", "update", "adminUpdate"}
<1>1. req[r].kind \in Kinds /\ req[r].step \in StepsOf[req[r].kind]
  BY DEF Typed, TypeOK, RequestRecords, Shaped
<1> QED
  BY <1>1 DEF At, StepsOf, Kinds

LEMMA StepKinds ==
  /\ "before" \in StepsOf["reset"] /\ "before" \in StepsOf["update"]
  /\ \A kind \in {"confirm", "reset", "update", "adminUpdate"} :
       "find" \in StepsOf[kind] /\ "saveUser" \in StepsOf[kind]
  /\ \A step \in {"readUser", "findSession", "saveSession", "reply"} : step \in StepsOf["refresh"]
  /\ "reply" \in StepsOf["login"]
BY DEF StepsOf

LEMMA DeleteSessionsMoves ==
  ASSUME Typed, NEW r \in Requests, deleteSessions(r)
  PROVE  /\ moves(r, "before") /\ req'[r].dto = req[r].dto /\ req'[r].late = req[r].late
         /\ \A q \in Requests \ {r} :
              /\ req'[q].outdated = req[q].outdated
              /\ ~(req[q].kind = "refresh" /\ req[q].session \in deletedSessions(r)) => req'[q] = req[q]
              /\ req[q].kind = "refresh" /\ req[q].session \in deletedSessions(r) => req'[q].late /\ req'[q].raced
<1>1. PICK R : R = Goto(r, "before")
  OBVIOUS
<1>2. At(r, "deleteSessions") /\ req' = sessionsWritten(deletedSessions(r), R)
  BY <1>1 DEF deleteSessions
<1>3. /\ R = [req EXCEPT ![r].step = "before"] /\ req \in [Requests -> RequestRecords]
      /\ req[r] \in RequestRecords
  BY <1>1 DEF Goto, Typed, TypeOK
<1>4. [req[r] EXCEPT !.step = "before"] \in RequestRecords
  BY <1>3 DEF RequestRecords, Steps
<1>5. /\ R \in [Requests -> RequestRecords] /\ R[r] = [req[r] EXCEPT !.step = "before"]
      /\ \A q \in Requests \ {r} : R[q] = req[q]
  BY <1>3, <1>4
<1>6. /\ R[r].step = "before" /\ R[r].kind = req[r].kind /\ R[r].user = req[r].user
      /\ R[r].session = req[r].session /\ R[r].number = req[r].number
      /\ R[r].presented = req[r].presented /\ R[r].doomed = req[r].doomed
      /\ R[r].outdated = req[r].outdated /\ R[r].raced = req[r].raced
      /\ R[r].dto = req[r].dto /\ R[r].late = req[r].late
  BY <1>3, <1>5 DEF RequestRecords
<1>7. R[r].kind # "refresh"
  <2>1. req[r].kind \in {"reset", "update"}
    BY <1>2, KindsAt
  <2> QED
    BY <1>6, <2>1
<1>8. req'[r] = R[r]
  <2>1. ~(R[r].kind = "refresh" /\ R[r].session \in deletedSessions(r)) => req'[r] = R[r]
    <3>1. R \in [Requests -> RequestRecords]
      BY <1>5
    <3> QED
      BY <1>2, <3>1, SessionsWritten
  <2> QED
    BY <1>7, <2>1
<1>9. /\ req' \in [Requests -> RequestRecords]
      /\ \A q \in Requests \ {r} :
           /\ SameCall(req[q], req'[q])
           /\ req'[q].outdated = req[q].outdated
           /\ ~(req[q].kind = "refresh" /\ req[q].session \in deletedSessions(r)) => req'[q] = req[q]
           /\ req[q].kind = "refresh" /\ req[q].session \in deletedSessions(r) => req'[q].late /\ req'[q].raced
  BY <1>2, <1>5, SessionsWritten
<1> QED
  BY <1>6, <1>8, <1>9 DEF moves

LEMMA ReadBeforeMoves ==
  ASSUME Typed, NEW r \in Requests, readBefore(r)
  PROVE  /\ moves(r, "find")
         /\ req'[r].dto = [req[r].dto EXCEPT !.password = passwordToSave(req[r].dto.password, req[r].user)]
         /\ \A q \in Requests \ {r} : req'[q] = req[q]
<1>1. PICK password : password = passwordToSave(req[r].dto.password, req[r].user)
  OBVIOUS
<1>2. req \in [Requests -> RequestRecords] /\ req[r] \in RequestRecords
  BY DEF Typed, TypeOK
<1>3. password \in Passphrases \cup {NoPassword}
  <2>1. req[r].dto.password \in Passphrases \cup {NoPassword}
    BY <1>2 DEF RequestRecords, Dtos
  <2> QED
    BY <1>1, <2>1, SaveTypes
<1>4. req' = [req EXCEPT ![r].step = "find", ![r].dto.password = password]
  BY <1>1 DEF readBefore
<1>5. /\ req'[r] = [req[r] EXCEPT !.step = "find", !.dto.password = password]
      /\ \A q \in Requests \ {r} : req'[q] = req[q]
  BY <1>2, <1>4
<1>6. [req[r].dto EXCEPT !.password = password] \in Dtos
  BY <1>2, <1>3 DEF RequestRecords, Dtos
<1>7. [req[r] EXCEPT !.step = "find", !.dto = [req[r].dto EXCEPT !.password = password]] \in RequestRecords
  BY <1>2, <1>6 DEF RequestRecords, Steps
<1>8. /\ req'[r] \in RequestRecords
      /\ req'[r].step = "find" /\ req'[r].kind = req[r].kind /\ req'[r].user = req[r].user
      /\ req'[r].session = req[r].session /\ req'[r].number = req[r].number
      /\ req'[r].presented = req[r].presented /\ req'[r].doomed = req[r].doomed
      /\ req'[r].outdated = req[r].outdated /\ req'[r].raced = req[r].raced
      /\ req'[r].dto = [req[r].dto EXCEPT !.password = password]
  BY <1>2, <1>5, <1>6, <1>7 DEF RequestRecords, Steps
<1>9. req' \in [Requests -> RequestRecords]
  BY <1>2, <1>4, <1>5, <1>8
<1> QED
  BY <1>1, <1>5, <1>8, <1>9 DEF moves, SameCall

LEMMA FindUserMoves ==
  ASSUME Typed, NEW r \in Requests, findUser(r)
  PROVE  /\ \A q \in Requests \ {r} : req'[q] = req[q]
         /\ \/ /\ Present(req[r].user) /\ moves(r, "saveUser") /\ req'[r].dto = req[r].dto
               /\ ~req'[r].late
            \/ ~Present(req[r].user) /\ ends(r)
<1>1. req \in [Requests -> RequestRecords] /\ req[r] \in RequestRecords
  BY DEF Typed, TypeOK
<1>2. CASE Present(req[r].user)
  <2>1. req' = [req EXCEPT ![r].step = "saveUser", ![r].late = FALSE]
    BY <1>2 DEF findUser
  <2>2. /\ req'[r] = [req[r] EXCEPT !.step = "saveUser", !.late = FALSE]
        /\ \A q \in Requests \ {r} : req'[q] = req[q]
    BY <1>1, <2>1
  <2>3. [req[r] EXCEPT !.step = "saveUser", !.late = FALSE] \in RequestRecords
    BY <1>1 DEF RequestRecords, Steps
  <2>4. /\ req'[r].step = "saveUser" /\ req'[r].kind = req[r].kind /\ req'[r].user = req[r].user
        /\ req'[r].session = req[r].session /\ req'[r].number = req[r].number
        /\ req'[r].presented = req[r].presented /\ req'[r].doomed = req[r].doomed
        /\ req'[r].outdated = req[r].outdated /\ req'[r].raced = req[r].raced
        /\ req'[r].dto = req[r].dto /\ ~req'[r].late
    BY <1>1, <2>2 DEF RequestRecords
  <2>5. req' \in [Requests -> RequestRecords]
    BY <1>1, <2>1, <2>3
  <2> QED
    BY <1>2, <2>2, <2>4, <2>5 DEF moves, SameCall
<1>3. CASE ~Present(req[r].user)
  <2>1. req' = Finish(r)
    BY <1>3 DEF findUser
  <2> QED
    BY <1>3, <2>1, Ends
<1> QED
  BY <1>2, <1>3

LEMMA FindSessionMoves ==
  ASSUME Typed, NEW r \in Requests, findSession(r)
  PROVE  /\ \A q \in Requests \ {r} : req'[q] = req[q]
         /\ \/ /\ Open(req[r].session) /\ moves(r, "saveSession") /\ req'[r].dto = req[r].dto
               /\ ~req'[r].late
            \/ ends(r)
<1>1. req \in [Requests -> RequestRecords] /\ req[r] \in RequestRecords
  BY DEF Typed, TypeOK
<1>2. CASE Open(req[r].session) /\ Present(req[r].user)
  <2>1. req' = [req EXCEPT ![r].step = "saveSession", ![r].late = FALSE]
    BY <1>2 DEF findSession
  <2>2. /\ req'[r] = [req[r] EXCEPT !.step = "saveSession", !.late = FALSE]
        /\ \A q \in Requests \ {r} : req'[q] = req[q]
    BY <1>1, <2>1
  <2>3. [req[r] EXCEPT !.step = "saveSession", !.late = FALSE] \in RequestRecords
    BY <1>1 DEF RequestRecords, Steps
  <2>4. /\ req'[r].step = "saveSession" /\ req'[r].kind = req[r].kind /\ req'[r].user = req[r].user
        /\ req'[r].session = req[r].session /\ req'[r].number = req[r].number
        /\ req'[r].presented = req[r].presented /\ req'[r].doomed = req[r].doomed
        /\ req'[r].outdated = req[r].outdated /\ req'[r].raced = req[r].raced
        /\ req'[r].dto = req[r].dto /\ ~req'[r].late
    BY <1>1, <2>2 DEF RequestRecords
  <2>5. req' \in [Requests -> RequestRecords]
    BY <1>1, <2>1, <2>3
  <2> QED
    BY <1>2, <2>2, <2>4, <2>5 DEF moves, SameCall
<1>3. CASE ~(Open(req[r].session) /\ Present(req[r].user))
  <2>1. req' = Finish(r)
    BY <1>3 DEF findSession
  <2> QED
    BY <2>1, Ends
<1> QED
  BY <1>2, <1>3

LEMMA SaveSessionMoves ==
  ASSUME Typed, NEW r \in Requests, saveSession(r)
  PROVE  /\ moves(r, "reply") /\ req'[r].dto = req[r].dto
         /\ \A q \in Requests \ {r} :
              /\ req'[q].outdated = req[q].outdated
              /\ ~(req[q].kind = "refresh" /\ req[q].session = req[r].session) => req'[q] = req[q]
              /\ req[q].kind = "refresh" /\ req[q].session = req[r].session => req'[q].late /\ req'[q].raced
<1>1. PICK R : R = sessionsWritten({req[r].session}, req)
  OBVIOUS
<1>2. req \in [Requests -> RequestRecords] /\ req[r] \in RequestRecords
  BY DEF Typed, TypeOK
<1>3. req' = [R EXCEPT ![r] = [req[r] EXCEPT !.step = "reply"]]
  BY <1>1 DEF saveSession
<1>4. /\ R \in [Requests -> RequestRecords]
      /\ \A q \in Requests :
           /\ SameCall(req[q], R[q])
           /\ R[q].outdated = req[q].outdated
           /\ ~(req[q].kind = "refresh" /\ req[q].session = req[r].session) => R[q] = req[q]
           /\ req[q].kind = "refresh" /\ req[q].session = req[r].session => R[q].late /\ R[q].raced
  BY <1>1, <1>2, SessionsWritten
<1>5. [req[r] EXCEPT !.step = "reply"] \in RequestRecords
  BY <1>2 DEF RequestRecords, Steps
<1>6. /\ req' \in [Requests -> RequestRecords] /\ req'[r] = [req[r] EXCEPT !.step = "reply"]
      /\ \A q \in Requests \ {r} : req'[q] = R[q]
  BY <1>3, <1>4, <1>5
<1>7. /\ req'[r].step = "reply" /\ req'[r].kind = req[r].kind /\ req'[r].user = req[r].user
      /\ req'[r].session = req[r].session /\ req'[r].number = req[r].number
      /\ req'[r].presented = req[r].presented /\ req'[r].doomed = req[r].doomed
      /\ req'[r].outdated = req[r].outdated /\ req'[r].raced = req[r].raced
      /\ req'[r].dto = req[r].dto
  BY <1>2, <1>6 DEF RequestRecords
<1> QED
  BY <1>4, <1>6, <1>7 DEF moves

LEMMA CreateSessionMoves ==
  ASSUME Typed, NEW r \in Requests, NEW s \in Sessions,
         req' = [req EXCEPT ![r].step = "reply", ![r].session = s]
  PROVE  /\ req' \in [Requests -> RequestRecords]
         /\ \A q \in Requests \ {r} : req'[q] = req[q]
         /\ req'[r].step = "reply" /\ req'[r].session = s
         /\ req'[r].kind = req[r].kind /\ req'[r].user = req[r].user
         /\ req'[r].number = req[r].number /\ req'[r].presented = req[r].presented
         /\ req'[r].doomed = req[r].doomed /\ req'[r].dto = req[r].dto
<1>1. req \in [Requests -> RequestRecords] /\ req[r] \in RequestRecords
  BY DEF Typed, TypeOK
<1>2. /\ req'[r] = [req[r] EXCEPT !.step = "reply", !.session = s]
      /\ \A q \in Requests \ {r} : req'[q] = req[q]
  BY <1>1
<1>3. [req[r] EXCEPT !.step = "reply", !.session = s] \in RequestRecords
  BY <1>1 DEF RequestRecords, Steps
<1>4. req' \in [Requests -> RequestRecords]
  BY <1>1, <1>3
<1> QED
  BY <1>1, <1>2, <1>4 DEF RequestRecords

LEMMA RowTypes ==
  ASSUME NEW row \in SessionRows, NEW h \in 0..MaxRequests
  PROVE  /\ [row EXCEPT !.state = "ended"] \in SessionRows
         /\ [row EXCEPT !.hash = h, !.state = "open"] \in SessionRows
BY DEF SessionRows

LEMMA SavesTyped ==
  ASSUME Typed, NEW r \in Requests, saveNewUser(r) \/ saveUser(r)
  PROVE  Typed'
<1>1. req[r] \in RequestRecords /\ req[r].dto \in Dtos /\ users \in [Users -> UserRows]
  BY DEF Typed, TypeOK, RequestRecords
<1>2. CASE saveNewUser(r)
  <2>1. ends(r)
    <3>1. req' = Finish(r) \/ req' = userWritten(req[r].user, Finish(r))
      BY <1>2 DEF saveNewUser
    <3> QED
      BY <3>1, Ends, EndsWritten
  <2>2. users' \in [Users -> UserRows]
    <3>1. [state |-> "present", status |-> req[r].dto.status,
           role |-> req[r].dto.role, password |-> req[r].dto.password] \in UserRows
      BY <1>2 DEF saveNewUser, Typed, Shaped
    <3> QED
      BY <1>1, <1>2, <3>1 DEF saveNewUser
  <2>3. mails' \subseteq {"confirm", "forgot"} \X Users
    <3>1. req[r].user \in Users /\ mails \subseteq {"confirm", "forgot"} \X Users
      BY <1>2 DEF saveNewUser, Typed, TypeOK, Shaped
    <3>2. mails' \subseteq mails \cup {<<"confirm", req[r].user>>}
      BY <1>2 DEF saveNewUser
    <3> QED
      BY <3>1, <3>2
  <2>4. UNCHANGED <<sessions, client, started, redeemed, diverged>>
    BY <1>2 DEF saveNewUser
  <2>5. TypeOK'
    BY <2>1, <2>2, <2>3, <2>4 DEF Typed, TypeOK, ends
  <2> QED
    BY <2>1, <2>5, EndsTyped DEF Typed
<1>3. CASE saveUser(r)
  <2>1. ends(r)
    <3>1. req' = Finish(r) \/ req' = userWritten(req[r].user, Finish(r))
      BY <1>3 DEF saveUser
    <3> QED
      BY <3>1, Ends, EndsWritten
  <2>2. users' \in [Users -> UserRows]
    <3>1. PICK u : u = req[r].user
      OBVIOUS
    <3>2. users' = [users EXCEPT ![u] = savedUser(users[u], req[r].dto)]
      BY <1>3, <3>1 DEF saveUser
    <3>3. CASE u \in Users
      <4>1. savedUser(users[u], req[r].dto) \in UserRows
        BY <1>1, <3>3, SavedUserTypes
      <4> QED
        BY <1>1, <3>2, <4>1
    <3>4. CASE u \notin Users
      BY <1>1, <3>2, <3>4
    <3> QED
      BY <3>3, <3>4
  <2>3. UNCHANGED <<sessions, client, mails, started, redeemed, diverged>>
    BY <1>3 DEF saveUser
  <2>4. TypeOK'
    BY <2>1, <2>2, <2>3 DEF Typed, TypeOK, ends
  <2> QED
    BY <2>1, <2>4, EndsTyped DEF Typed
<1> QED
  BY <1>2, <1>3

LEMMA ProgressTyped ==
  ASSUME Typed, NEW r \in Requests, Progress(r)
  PROVE  Typed'
<1>1. CASE saveNewUser(r) \/ saveUser(r)
  BY <1>1, SavesTyped
<1>2. CASE deleteSessions(r)
  <2>1. moves(r, "before")
    BY <1>2, DeleteSessionsMoves
  <2>2. "before" \in StepsOf[req[r].kind]
    BY <1>2, KindsAt, StepKinds DEF deleteSessions
  <2>3. sessions' \in [Sessions -> SessionRows]
    BY <1>2 DEF deleteSessions, Typed, TypeOK, SessionRows
  <2>4. TypeOK'
    BY <1>2, <2>1, <2>3 DEF deleteSessions, Typed, TypeOK, moves
  <2> QED
    BY <2>1, <2>2, <2>4, MovesTyped DEF Typed
<1>3. CASE readBefore(r)
  <2>1. moves(r, "find")
    BY <1>3, ReadBeforeMoves
  <2>2. "find" \in StepsOf[req[r].kind]
    BY <1>3, KindsAt, StepKinds DEF readBefore
  <2>3. TypeOK'
    BY <1>3, <2>1 DEF readBefore, Typed, TypeOK, moves
  <2> QED
    BY <2>1, <2>2, <2>3, MovesTyped DEF Typed
<1>4. CASE findUser(r)
  <2>1. moves(r, "saveUser") \/ ends(r)
    BY <1>4, FindUserMoves
  <2>2. "saveUser" \in StepsOf[req[r].kind]
    BY <1>4, KindsAt, StepKinds DEF findUser
  <2>3. TypeOK'
    BY <1>4, <2>1 DEF findUser, Typed, TypeOK, moves, ends
  <2> QED
    BY <2>1, <2>2, <2>3, MovesTyped, EndsTyped DEF Typed
<1>5. CASE createSession(r)
  <2>1. PICK s \in Sessions :
           /\ sessions' = [sessions EXCEPT ![s] = [user |-> req[r].user, state |-> "open",
                                                  hash |-> req[r].number]]
           /\ req' = [req EXCEPT ![r].step = "reply", ![r].session = s]
    BY <1>5 DEF createSession, FreeSessions
  <2>2. /\ req' \in [Requests -> RequestRecords]
        /\ \A q \in Requests \ {r} : req'[q] = req[q]
        /\ req'[r].step = "reply" /\ req'[r].session = s
        /\ req'[r].kind = req[r].kind /\ req'[r].number = req[r].number
    BY <2>1, CreateSessionMoves
  <2>3. req[r].kind = "login"
    BY <1>5, KindsAt DEF createSession
  <2>4. \A q \in Requests : Shaped(q)'
    <3>1. Shaped(r)'
      BY <2>2, <2>3, StepKinds DEF Shaped, HasSession, At, Typed
    <3>2. ASSUME NEW q \in Requests \ {r} PROVE Shaped(q)'
      BY <2>2 DEF Shaped, HasSession, At, Typed
    <3> QED
      BY <3>1, <3>2
  <2>5. sessions' \in [Sessions -> SessionRows]
    <3>1. [user |-> req[r].user, state |-> "open", hash |-> req[r].number] \in SessionRows
      BY DEF Typed, TypeOK, RequestRecords, SessionRows
    <3> QED
      BY <2>1, <3>1 DEF Typed, TypeOK
  <2>6. TypeOK'
    BY <1>5, <2>2, <2>5 DEF createSession, Typed, TypeOK
  <2> QED
    BY <2>4, <2>6 DEF Typed
<1>6. CASE readUser(r)
  <2>1. moves(r, "findSession") \/ ends(r)
    <3>1. req' = Goto(r, "findSession") \/ req' = Finish(r)
      BY <1>6 DEF readUser
    <3>2. "findSession" \in Steps
      BY DEF Steps
    <3> QED
      BY <3>1, <3>2, Goes, Ends
  <2>2. "findSession" \in StepsOf[req[r].kind]
    BY <1>6, KindsAt, StepKinds DEF readUser
  <2>3. TypeOK'
    BY <1>6, <2>1 DEF readUser, Typed, TypeOK, moves, ends
  <2> QED
    BY <2>1, <2>2, <2>3, MovesTyped, EndsTyped DEF Typed
<1>7. CASE findSession(r)
  <2>1. moves(r, "saveSession") \/ ends(r)
    BY <1>7, FindSessionMoves
  <2>2. "saveSession" \in StepsOf[req[r].kind]
    BY <1>7, KindsAt, StepKinds DEF findSession
  <2>3. TypeOK'
    BY <1>7, <2>1 DEF findSession, Typed, TypeOK, moves, ends
  <2> QED
    BY <2>1, <2>2, <2>3, MovesTyped, EndsTyped DEF Typed
<1>8. CASE saveSession(r)
  <2>1. moves(r, "reply")
    BY <1>8, SaveSessionMoves
  <2>2. req[r].kind = "refresh" /\ "reply" \in StepsOf[req[r].kind]
    BY <1>8, KindsAt, StepKinds DEF saveSession
  <2>3. /\ req[r].session \in Sessions /\ req[r].presented \in 1..MaxRequests
        /\ req[r].number \in 0..MaxRequests
    <3>1. req[r].presented \in 0..MaxRequests /\ req[r].number \in 0..MaxRequests
      BY DEF Typed, TypeOK, RequestRecords
    <3>2. req[r].session \in Sessions /\ req[r].presented # 0
      BY <2>2 DEF Typed, Shaped, HasSession
    <3> QED
      BY <3>1, <3>2
  <2>4. sessions' \in [Sessions -> SessionRows]
    <3>1. sessions' = [sessions EXCEPT ![req[r].session] =
                         [sessions[req[r].session] EXCEPT !.hash = req[r].number, !.state = "open"]]
      BY <1>8, <2>3 DEF saveSession, Typed, TypeOK, SessionRows
    <3>2. [sessions[req[r].session] EXCEPT !.hash = req[r].number, !.state = "open"] \in SessionRows
      BY <2>3, RowTypes DEF Typed, TypeOK
    <3> QED
      BY <3>1, <3>2 DEF Typed, TypeOK
  <2>5. redeemed' \in [Sessions -> SUBSET (1..MaxRequests)] /\ diverged' \subseteq Sessions
    BY <1>8, <2>3 DEF saveSession, Typed, TypeOK
  <2>6. TypeOK'
    BY <1>8, <2>1, <2>4, <2>5 DEF saveSession, Typed, TypeOK, moves
  <2> QED
    BY <2>1, <2>2, <2>3, <2>6, MovesTyped DEF Typed
<1>9. CASE reply(r)
  <2>1. ends(r)
    BY <1>9, Ends DEF reply
  <2>2. req[r].session \in Sessions /\ req[r].number \in 0..MaxRequests
    BY <1>9 DEF reply, Typed, TypeOK, RequestRecords, Shaped, HasSession
  <2>3. TypeOK'
    BY <1>9, <2>1, <2>2 DEF reply, Typed, TypeOK, ends
  <2> QED
    BY <2>1, <2>3, EndsTyped DEF Typed
<1> QED
  BY <1>1, <1>2, <1>3, <1>4, <1>5, <1>6, <1>7, <1>8, <1>9 DEF Progress

LEMMA TypedInit ==
  ASSUME Init
  PROVE  Typed
<1>1. TypeOK
  BY IdleTypes DEF Init, TypeOK, SessionRows
<1>2. \A r \in Requests : Shaped(r)
  BY IdleFields DEF Init, Shaped, HasSession, At, StepsOf
<1> QED
  BY <1>1, <1>2 DEF Typed

LEMMA TypedNext ==
  ASSUME Typed, [Next]_vars
  PROVE  Typed'
<1>1. ASSUME NEW r \in Requests, Progress(r) PROVE Typed'
  BY <1>1, ProgressTyped
<1>2. ASSUME NEW r \in Requests, AuthController(r) \/ UsersController(r) PROVE Typed'
  BY <1>2, BeginsTyped
<1>3. ASSUME NEW u \in Users, forgotPassword(u) PROVE Typed'
  BY <1>3 DEF forgotPassword, Typed, TypeOK, Shaped, HasSession, At
<1>4. ASSUME NEW u \in Users, removeUser(u) PROVE Typed'
  <2>1. users' \in [Users -> UserRows]
    BY <1>4 DEF removeUser, Typed, TypeOK, UserRows
  <2>2. /\ req \in [Requests -> RequestRecords]
        /\ req' = userWritten(u, req)
    BY <1>4 DEF removeUser, Typed, TypeOK
  <2>3. /\ req' \in [Requests -> RequestRecords]
        /\ \A q \in Requests : SameCall(req[q], req'[q])
    BY <2>2, UserWritten
  <2>4. TypeOK'
    BY <1>4, <2>1, <2>3 DEF removeUser, Typed, TypeOK
  <2> QED
    BY <2>3, <2>4, SameShape DEF Typed
<1>5. ASSUME NEW s \in Sessions, logout(s) PROVE Typed'
  <2>1. sessions' \in [Sessions -> SessionRows] /\ client' \in [Sessions -> 0..MaxRequests]
    <3>1. sessions[s] \in SessionRows /\ 0 \in 0..MaxRequests
      BY DEF Typed, TypeOK
    <3>2. [sessions[s] EXCEPT !.state = "ended"] \in SessionRows
      BY <3>1, RowTypes
    <3> QED
      BY <1>5, <3>1, <3>2 DEF logout, Typed, TypeOK
  <2>2. /\ req \in [Requests -> RequestRecords]
        /\ req' = sessionsWritten({s}, req)
    BY <1>5 DEF logout, Typed, TypeOK
  <2>3. /\ req' \in [Requests -> RequestRecords]
        /\ \A q \in Requests : SameCall(req[q], req'[q])
    BY <2>2, SessionsWritten
  <2>4. TypeOK'
    BY <1>5, <2>1, <2>3 DEF logout, Typed, TypeOK
  <2> QED
    BY <2>3, <2>4, SameShape DEF Typed
<1>6. CASE UNCHANGED vars
  BY <1>6 DEF vars, Typed, TypeOK, Shaped, HasSession, At
<1> QED
  BY <1>1, <1>2, <1>3, <1>4, <1>5, <1>6 DEF Next

(* The types and shapes hold in every reachable state of AuthSessions.       *)
LEMMA TypedAlways == Spec => []Typed
BY TypedInit, TypedNext, PTL DEF Spec

(* Every variable keeps to its type, whatever requests overlap: the row a   *)
(* step of users.service.ts or session.repository.ts writes is a whole one. *)
THEOREM TypeCorrect == Spec => []TypeOK
<1>1. Typed => TypeOK
  BY DEF Typed
<1> QED
  BY <1>1, TypedAlways, PTL

-----------------------------------------------------------------------------
(* The sessions.  Numbers are drawn once: no token carries the number of a  *)
(* request before that request has stored it.                              *)
NumbersAreNew ==
  /\ \A s \in Sessions : /\ sessions[s].hash <= started /\ client[s] <= started
                         /\ \A h \in redeemed[s] : h <= started
  /\ \A r \in Requests : req[r].number <= started /\ req[r].presented <= started
  /\ \A r \in Requests : req[r].kind # "none" =>
       /\ \A q \in Requests \ {r} : req[q].number # req[r].number
       /\ \A q \in Requests : req[q].presented # req[r].number
       /\ \A s \in Sessions : /\ client[s] # req[r].number /\ req[r].number \notin redeemed[s]
                              /\ ~At(r, "reply") => sessions[s].hash # req[r].number

(* Nobody knows a session that no login has opened yet.                    *)
FreeIsUntouched ==
  \A s \in Sessions : sessions[s].state = "free" =>
    /\ client[s] = 0 /\ redeemed[s] = {}
    /\ \A r \in Requests : req[r].session # s /\ s \notin req[r].doomed

HashIsNew == \A s \in Sessions : sessions[s].hash \notin redeemed[s]

(* What the comparison of the hash has established stays true until the     *)
(* session is written.                                                     *)
Compared ==
  \A r \in Requests : req[r].kind = "refresh" /\ ~At(r, "reply") /\ ~req[r].raced =>
    Open(req[r].session) /\ sessions[req[r].session].hash = req[r].presented

(* A reply under way carries the hash of its session, and without one the   *)
(* client of an open session has it already.                               *)
Delivered ==
  \A s \in Sessions \ diverged :
    /\ \A r \in Requests : At(r, "reply") /\ req[r].session = s => sessions[s].hash = req[r].number
    /\ Open(s) => \/ client[s] = sessions[s].hash
                  \/ \E r \in Requests : At(r, "reply") /\ req[r].session = s

(* The sessions a password ends: of the account, open when it was read, and *)
(* over from deleteSessions on.                                            *)
DoomedEnd ==
  \A r \in Requests : \A s \in req[r].doomed :
    IF At(r, "deleteSessions")
    THEN sessions[s].user = req[r].user /\ (req[r].kind = "update" => s # req[r].session)
    ELSE s \in diverged \/ sessions[s].state = "ended"

Tokens == NumbersAreNew /\ FreeIsUntouched /\ HashIsNew /\ Compared /\ Delivered /\ DoomedEnd

(* Steps that leave the sessions and the tokens alone.  Every request goes  *)
(* on, but for one that may end or begin.                                  *)
continues(q) ==
  /\ req'[q].kind = req[q].kind /\ req'[q].user = req[q].user /\ req'[q].session = req[q].session
  /\ req'[q].number = req[q].number /\ req'[q].presented = req[q].presented
  /\ req'[q].doomed = req[q].doomed /\ (req[q].raced => req'[q].raced)
  /\ (req'[q].step = "reply" <=> req[q].step = "reply")
  /\ (req'[q].step = "deleteSessions" <=> req[q].step = "deleteSessions")
gone(q) ==
  /\ ~At(q, "reply") /\ req'[q].step = "idle" /\ req'[q].kind = "none" /\ req'[q].session = 0
  /\ req'[q].number = 0 /\ req'[q].presented = 0 /\ req'[q].doomed = {}
asked(q) ==
  /\ started' = started + 1 /\ req'[q].number = started + 1 /\ req[q].kind = "none"
  /\ req'[q].step # "reply"
  /\ \/ req'[q].presented = 0
     \/ \E s \in Sessions : req'[q].presented \in {client[s]} \cup redeemed[s]
  /\ req'[q].kind = "refresh" =>
       Open(req'[q].session) /\ sessions[req'[q].session].hash = req'[q].presented
  /\ req'[q].session \in Sessions => Open(req'[q].session) \/ client[req'[q].session] # 0
  /\ \A s \in req'[q].doomed :
       /\ req'[q].step = "deleteSessions" /\ Open(s) /\ sessions[s].user = req'[q].user
       /\ req'[q].kind = "update" => s # req'[q].session
quiet(r) ==
  /\ UNCHANGED <<sessions, client, redeemed, diverged>>
  /\ \A q \in Requests \ {r} : continues(q)
  /\ r \in Requests => \/ started' = started /\ (continues(r) \/ gone(r))
                       \/ asked(r)
  /\ r \notin Requests => started' = started

LEMMA NumbersTypes ==
  ASSUME Typed
  PROVE  /\ started \in Nat
         /\ \A s \in Sessions : /\ sessions[s].hash \in Nat /\ client[s] \in Nat
                                /\ \A h \in redeemed[s] : h \in Nat /\ h # 0
         /\ \A r \in Requests : /\ req[r].number \in Nat /\ req[r].presented \in Nat
                                /\ req[r].kind # "none" => req[r].number # 0
<1>1. ASSUME NEW s \in Sessions
      PROVE  /\ sessions[s].hash \in Nat /\ client[s] \in Nat
             /\ \A h \in redeemed[s] : h \in Nat /\ h # 0
  BY DEF Typed, TypeOK, SessionRows
<1>2. ASSUME NEW r \in Requests
      PROVE  /\ req[r].number \in Nat /\ req[r].presented \in Nat
             /\ req[r].kind # "none" => req[r].number # 0
  <2>1. req[r] \in RequestRecords /\ Shaped(r)
    BY DEF Typed, TypeOK
  <2> QED
    BY <2>1 DEF RequestRecords, Shaped
<1> QED
  BY <1>1, <1>2 DEF Typed, TypeOK

LEMMA IdleAt ==
  ASSUME Typed, NEW r \in Requests, req[r].kind = "none"
  PROVE  ~At(r, "reply") /\ ~At(r, "deleteSessions") /\ req[r].step = "idle"
<1>1. req[r].step \in StepsOf["none"]
  BY DEF Typed, Shaped
<1> QED
  BY <1>1 DEF StepsOf, At

LEMMA QuietNumbers ==
  ASSUME Typed, NumbersAreNew, NEW r, quiet(r)
  PROVE  NumbersAreNew'
<1>1. /\ started \in Nat
      /\ \A s \in Sessions : /\ sessions[s].hash \in Nat /\ client[s] \in Nat
                             /\ \A h \in redeemed[s] : h \in Nat /\ h # 0
      /\ \A q \in Requests : /\ req[q].number \in Nat /\ req[q].presented \in Nat
                             /\ req[q].kind # "none" => req[q].number # 0
  BY NumbersTypes
<1>2. /\ started' \in Nat /\ started' >= started
      /\ sessions' = sessions /\ client' = client /\ redeemed' = redeemed
  BY <1>1 DEF quiet, asked
<1>3. ASSUME NEW q \in Requests
      PROVE  \/ continues(q)
             \/ gone(q)
             \/ asked(q) /\ q = r
  BY DEF quiet
<1>4. \A s \in Sessions : /\ sessions'[s].hash <= started' /\ client'[s] <= started'
                          /\ \A h \in redeemed'[s] : h <= started'
  BY <1>1, <1>2 DEF NumbersAreNew
<1>5. ASSUME NEW q \in Requests PROVE req'[q].number <= started' /\ req'[q].presented <= started'
  BY <1>1, <1>2, <1>3 DEF continues, gone, asked, NumbersAreNew
<1>6. ASSUME NEW q \in Requests, req'[q].kind # "none"
      PROVE  /\ \A p \in Requests \ {q} : req'[p].number # req'[q].number
             /\ \A p \in Requests : req'[p].presented # req'[q].number
             /\ \A s \in Sessions : /\ client'[s] # req'[q].number /\ req'[q].number \notin redeemed'[s]
                                    /\ ~At(q, "reply")' => sessions'[s].hash # req'[q].number
  <2>1. CASE continues(q)
    <3>1. /\ req[q].kind # "none" /\ req'[q].number = req[q].number
          /\ (At(q, "reply")' <=> At(q, "reply"))
      BY <1>6, <2>1 DEF continues, At
    <3>2. ASSUME NEW p \in Requests \ {q}
          PROVE  req'[p].number # req'[q].number
      BY <1>1, <1>3, <3>1 DEF continues, gone, asked, NumbersAreNew
    <3>3. ASSUME NEW p \in Requests
          PROVE  req'[p].presented # req'[q].number
      BY <1>1, <1>3, <3>1 DEF continues, gone, asked, NumbersAreNew
    <3> QED
      BY <1>1, <1>2, <3>1, <3>2, <3>3 DEF NumbersAreNew
  <2>2. CASE asked(q) /\ q = r
    <3>1. ASSUME NEW p \in Requests \ {q}
          PROVE  req'[p].number # req'[q].number /\ req'[p].presented # req'[q].number
      <4>1. continues(p)
        BY <2>2 DEF quiet
      <4> QED
        BY <1>1, <2>2, <4>1 DEF continues, asked, NumbersAreNew
    <3>2. req'[q].presented # req'[q].number
      BY <1>1, <2>2 DEF asked, NumbersAreNew
    <3>3. req'[q].number = started + 1
      BY <2>2 DEF asked
    <3> QED
      BY <1>1, <1>2, <3>1, <3>2, <3>3 DEF NumbersAreNew
  <2> QED
    BY <1>3, <1>6, <2>1, <2>2 DEF gone
<1> QED
  BY <1>4, <1>5, <1>6 DEF NumbersAreNew

LEMMA QuietTokens ==
  ASSUME Typed, Tokens, NEW r, quiet(r)
  PROVE  Tokens'
<1>1. sessions' = sessions /\ client' = client /\ redeemed' = redeemed /\ diverged' = diverged
  BY DEF quiet
<1>2. ASSUME NEW q \in Requests
      PROVE  continues(q) \/ gone(q) \/ asked(q)
  BY DEF quiet
<1>3. NumbersAreNew'
  BY QuietNumbers DEF Tokens
<1>4. FreeIsUntouched'
  <2>1. ASSUME NEW s \in Sessions, sessions[s].state = "free", NEW q \in Requests
        PROVE  req'[q].session # s /\ s \notin req'[q].doomed
    <3>1. client[s] = 0 /\ req[q].session # s /\ s \notin req[q].doomed
      BY <2>1 DEF Tokens, FreeIsUntouched
    <3>2. s # 0
      BY DEF Sessions
    <3>3. ~Open(s)
      BY <2>1 DEF Open
    <3> QED
      BY <1>2, <3>1, <3>2, <3>3 DEF continues, gone, asked
  <2> QED
    BY <1>1, <2>1 DEF Tokens, FreeIsUntouched
<1>5. HashIsNew'
  BY <1>1 DEF Tokens, HashIsNew
<1>6. Compared'
  <2>1. ASSUME NEW q \in Requests, req'[q].kind = "refresh", req'[q].step # "reply", ~req'[q].raced
        PROVE  Open(req'[q].session) /\ sessions[req'[q].session].hash = req'[q].presented
    BY <1>2, <2>1 DEF continues, gone, asked, Tokens, Compared, At
  <2> QED
    BY <1>1, <2>1 DEF Compared, At, Open
<1>7. Delivered'
  <2>1. ASSUME NEW q \in Requests
        PROVE  /\ At(q, "reply")' <=> At(q, "reply")
               /\ At(q, "reply") => req'[q].session = req[q].session /\ req'[q].number = req[q].number
    <3>1. asked(q) => ~At(q, "reply")
      BY IdleAt DEF asked
    <3> QED
      BY <1>2, <3>1 DEF continues, gone, asked, At
  <2> QED
    BY <1>1, <2>1 DEF Tokens, Delivered, Open
<1>8. DoomedEnd'
  <2>1. ASSUME NEW q \in Requests, NEW s \in req'[q].doomed
        PROVE  IF req'[q].step = "deleteSessions"
               THEN sessions[s].user = req'[q].user /\ (req'[q].kind = "update" => s # req'[q].session)
               ELSE s \in diverged \/ sessions[s].state = "ended"
    BY <1>2, <2>1 DEF continues, gone, asked, Tokens, DoomedEnd, At
  <2> QED
    BY <1>1, <2>1 DEF DoomedEnd, At
<1> QED
  BY <1>3, <1>4, <1>5, <1>6, <1>7, <1>8 DEF Tokens

LEMMA Asks ==
  ASSUME Typed, NEW r \in Requests, NEW kind, NEW step, NEW u, NEW session, NEW presented,
         NEW dto, NEW doomed, typedBegin(r, kind, step, u, session, presented, dto, doomed),
         step # "reply",
         presented = 0 \/ \E s \in Sessions : presented \in {client[s]} \cup redeemed[s],
         kind = "refresh" => Open(session) /\ sessions[session].hash = presented,
         session \in Sessions => Open(session) \/ client[session] # 0,
         \A s \in doomed : /\ step = "deleteSessions" /\ Open(s) /\ sessions[s].user = u
                           /\ kind = "update" => s # session,
         UNCHANGED <<users, sessions, client, mails, redeemed, diverged>>
  PROVE  quiet(r)
<1>1. asked(r)
  BY DEF typedBegin, begins, asked
<1>2. ASSUME NEW q \in Requests \ {r} PROVE continues(q)
  BY <1>2 DEF typedBegin, begins, continues
<1> QED
  BY <1>1, <1>2 DEF quiet

LEMMA BeginsQuiet ==
  ASSUME Typed, NEW r \in Requests, AuthController(r) \/ UsersController(r)
  PROVE  quiet(r)
<1>0. 0 \notin Sessions
  BY DEF Sessions
<1>1. ASSUME NEW u \in Users, NEW p \in Passwords, register(r, u, p) PROVE quiet(r)
  <2>1. PICK dto : dto = [status |-> "pending", role |-> "user", password |-> Hashed(p)]
    OBVIOUS
  <2> QED
    BY <1>0, <1>1, <2>1, BeginRegister, Asks DEF register
<1>2. ASSUME NEW u \in Users, NEW p \in Passwords, resetPassword(r, u, p) PROVE quiet(r)
  <2>1. PICK dto : dto = [status |-> users[u].status, role |-> users[u].role, password |-> Chosen(p)]
    OBVIOUS
  <2>2. typedBegin(r, "reset", "deleteSessions", u, 0, 0, dto, SessionsOf(u))
    BY <1>2, <2>1, BeginReset
  <2>3. \A s \in SessionsOf(u) : Open(s) /\ sessions[s].user = u
    BY DEF SessionsOf
  <2>4. UNCHANGED <<users, sessions, client, mails, redeemed, diverged>>
    BY <1>2 DEF resetPassword
  <2> QED
    BY <1>0, <2>2, <2>3, <2>4, Asks
<1>3. ASSUME NEW u \in Users, NEW p \in Passwords, validateLogin(r, u, p) PROVE quiet(r)
  BY <1>0, <1>3, BeginLogin, Asks DEF validateLogin
<1>4. ASSUME NEW u \in Users, confirmEmail(r, u) PROVE quiet(r)
  <2>1. PICK dto : dto = [status |-> "inactive", role |-> users[u].role, password |-> users[u].password]
    OBVIOUS
  <2> QED
    BY <1>0, <1>4, <2>1, BeginConfirm, Asks DEF confirmEmail
<1>5. ASSUME NEW s \in Sessions, updateProfile(r, s) PROVE quiet(r)
  <2>1. PICK u : u = sessions[s].user
    OBVIOUS
  <2>2. typedBegin(r, "update", "before", u, s, 0, NoChange, {})
    BY <1>5, <2>1, BeginProfile
  <2>3. client[s] # 0 /\ UNCHANGED <<users, sessions, client, mails, redeemed, diverged>>
    BY <1>5 DEF updateProfile, SignedIn
  <2> QED
    BY <2>2, <2>3, Asks
<1>6. ASSUME NEW s \in Sessions, NEW p \in Passwords, update(r, s, p) PROVE quiet(r)
  <2>1. PICK u : u = sessions[s].user
    OBVIOUS
  <2>2. PICK dto : dto = [NoChange EXCEPT !.password = Chosen(p)]
    OBVIOUS
  <2>3. typedBegin(r, "update", "deleteSessions", u, s, 0, dto, SessionsOf(u) \ {s})
    BY <1>6, <2>1, <2>2, BeginUpdate
  <2>4. client[s] # 0 /\ UNCHANGED <<users, sessions, client, mails, redeemed, diverged>>
    BY <1>6 DEF update, SignedIn
  <2>5. \A t \in SessionsOf(u) \ {s} : Open(t) /\ sessions[t].user = u /\ t # s
    BY DEF SessionsOf
  <2> QED
    BY <2>3, <2>4, <2>5, Asks
<1>7. ASSUME NEW s \in Sessions, NEW h \in refreshTokens(s), refreshToken(r, s, h) PROVE quiet(r)
  <2>1. PICK u : u = sessions[s].user
    OBVIOUS
  <2>2. typedBegin(r, "refresh", "readUser", u, s, h, NoChange, {})
    BY <1>7, <2>1, BeginRefresh
  <2>3. /\ Open(s) /\ sessions[s].hash = h /\ h \in {client[s]} \cup redeemed[s]
        /\ UNCHANGED <<users, sessions, client, mails, redeemed, diverged>>
    BY <1>7 DEF refreshToken, refreshTokens
  <2> QED
    BY <2>2, <2>3, Asks
<1>8. ASSUME NEW u \in Users, NEW body \in AdminDtos, createUser(r, u, body) PROVE quiet(r)
  <2>1. PICK dto : dto = [body EXCEPT !.password = Hashed(body.password.of)]
    OBVIOUS
  <2> QED
    BY <1>0, <1>8, <2>1, BeginCreate, Asks DEF createUser
<1>9. ASSUME NEW u \in Users, NEW body \in AdminDtos, adminUpdate(r, u, body) PROVE quiet(r)
  <2>1. PICK dto : dto = [body EXCEPT !.password = passwordToSave(body.password, u)]
    OBVIOUS
  <2> QED
    BY <1>0, <1>9, <2>1, BeginAdmin, Asks DEF adminUpdate
<1> QED
  BY <1>1, <1>2, <1>3, <1>4, <1>5, <1>6, <1>7, <1>8, <1>9 DEF AuthController, UsersController

LEMMA GoesQuietly ==
  ASSUME Typed, NEW r \in Requests, NEW step, moves(r, step), step # "reply",
         step # "deleteSessions", ~At(r, "reply"), ~At(r, "deleteSessions"),
         UNCHANGED <<sessions, client, redeemed, diverged, started>>
  PROVE  quiet(r)
BY DEF moves, SameCall, continues, quiet, At

LEMMA EndsQuietly ==
  ASSUME Typed, NEW r \in Requests, ends(r), ~At(r, "reply"),
         UNCHANGED <<sessions, client, redeemed, diverged, started>>
  PROVE  quiet(r)
BY IdleFields DEF ends, SameCall, continues, gone, quiet

LEMMA StepsQuiet ==
  ASSUME Typed, NEW r \in Requests,
         \/ saveNewUser(r) \/ readBefore(r) \/ findUser(r) \/ saveUser(r) \/ readUser(r)
         \/ findSession(r)
  PROVE  quiet(r)
<1>1. CASE saveNewUser(r)
  <2>1. req' = Finish(r) \/ req' = userWritten(req[r].user, Finish(r))
    BY <1>1 DEF saveNewUser
  <2>2. ends(r)
    BY <2>1, Ends, EndsWritten
  <2> QED
    BY <1>1, <2>2, EndsQuietly DEF saveNewUser, At
<1>2. CASE readBefore(r)
  BY <1>2, ReadBeforeMoves, GoesQuietly DEF readBefore, At
<1>3. CASE findUser(r)
  BY <1>3, FindUserMoves, GoesQuietly, EndsQuietly DEF findUser, At
<1>4. CASE saveUser(r)
  <2>1. req' = Finish(r) \/ req' = userWritten(req[r].user, Finish(r))
    BY <1>4 DEF saveUser
  <2>2. ends(r)
    BY <2>1, Ends, EndsWritten
  <2> QED
    BY <1>4, <2>2, EndsQuietly DEF saveUser, At
<1>5. CASE readUser(r)
  <2>1. req' = Goto(r, "findSession") \/ req' = Finish(r)
    BY <1>5 DEF readUser
  <2>2. "findSession" \in Steps
    BY DEF Steps
  <2>3. moves(r, "findSession") \/ ends(r)
    BY <2>1, <2>2, Goes, Ends
  <2> QED
    BY <1>5, <2>3, GoesQuietly, EndsQuietly DEF readUser, At
<1>6. CASE findSession(r)
  BY <1>6, FindSessionMoves, GoesQuietly, EndsQuietly DEF findSession, At
<1> QED
  BY <1>1, <1>2, <1>3, <1>4, <1>5, <1>6

LEMMA OthersQuiet ==
  ASSUME Typed, NEW u \in Users, forgotPassword(u) \/ removeUser(u)
  PROVE  \E r : quiet(r)
<1>1. PICK r : r \notin Requests
  BY NoSetContainsEverything
<1>2. \A q \in Requests : SameCall(req[q], req'[q])
  <2>1. CASE forgotPassword(u)
    BY <2>1 DEF forgotPassword, SameCall
  <2>2. CASE removeUser(u)
    <3>1. req \in [Requests -> RequestRecords] /\ req' = userWritten(u, req)
      BY <2>2 DEF removeUser, Typed, TypeOK
    <3> QED
      BY <3>1, UserWritten
  <2> QED
    BY <2>1, <2>2
<1>3. \A q \in Requests : continues(q)
  BY <1>2 DEF SameCall, continues
<1>4. UNCHANGED <<sessions, client, redeemed, diverged, started>>
  BY DEF forgotPassword, removeUser
<1> QED
  BY <1>1, <1>3, <1>4 DEF quiet

(* Steps that end sessions: no client gets a token, and no refresh that has *)
(* compared a hash of them may go on as if nothing had happened.           *)
closes(S) ==
  /\ UNCHANGED <<redeemed, diverged, started>>
  /\ \A s \in Sessions :
       /\ sessions'[s].hash = sessions[s].hash /\ sessions'[s].user = sessions[s].user
       /\ IF s \in S THEN sessions[s].state # "free" /\ sessions'[s].state = "ended"
                     ELSE sessions'[s].state = sessions[s].state
       /\ client'[s] = client[s] \/ (s \in S /\ client'[s] = 0)
  /\ \A q \in Requests :
       /\ req'[q].kind = req[q].kind /\ req'[q].user = req[q].user
       /\ req'[q].session = req[q].session /\ req'[q].number = req[q].number
       /\ req'[q].presented = req[q].presented /\ req'[q].doomed = req[q].doomed
       /\ req[q].raced => req'[q].raced
       /\ req[q].kind = "refresh" /\ req[q].session \in S => req'[q].raced
       /\ (req'[q].step = "reply" <=> req[q].step = "reply")
       /\ req'[q].step = "deleteSessions" => req[q].step = "deleteSessions"
       /\ req'[q].step # "deleteSessions" /\ req[q].step = "deleteSessions" =>
            \A s \in req[q].doomed : sessions'[s].state = "ended"

LEMMA ClosesTokens ==
  ASSUME Typed, Typed', Tokens, NEW S, closes(S)
  PROVE  Tokens'
<1>1. NumbersAreNew'
  <2>1. ASSUME NEW q \in Requests
        PROVE  /\ req'[q].kind = req[q].kind /\ req'[q].number = req[q].number
               /\ req'[q].presented = req[q].presented
               /\ At(q, "reply")' <=> At(q, "reply")
    BY DEF closes, At
  <2>2. ASSUME NEW s \in Sessions
        PROVE  sessions'[s].hash = sessions[s].hash /\ (client'[s] = client[s] \/ client'[s] = 0)
    BY DEF closes
  <2>3. started' = started /\ redeemed' = redeemed
    BY DEF closes
  <2> QED
    BY <2>1, <2>2, <2>3, NumbersTypes DEF Tokens, NumbersAreNew
<1>2. FreeIsUntouched'
  <2>1. ASSUME NEW s \in Sessions, sessions'[s].state = "free"
        PROVE  sessions[s].state = "free" /\ s \notin S
    BY <2>1 DEF closes
  <2> QED
    BY <2>1 DEF Tokens, FreeIsUntouched, closes
<1>3. HashIsNew'
  BY DEF Tokens, HashIsNew, closes
<1>4. Compared'
  <2>1. ASSUME NEW q \in Requests, req'[q].kind = "refresh", req'[q].step # "reply", ~req'[q].raced
        PROVE  /\ sessions'[req'[q].session].state = "open"
               /\ sessions'[req'[q].session].hash = req'[q].presented
    <3>1. /\ req[q].kind = "refresh" /\ req[q].step # "reply" /\ ~req[q].raced
          /\ req[q].session \notin S /\ req'[q].session = req[q].session
          /\ req'[q].presented = req[q].presented
      BY <2>1 DEF closes
    <3>2. req[q].session \in Sessions
      BY <3>1 DEF Typed, Shaped, HasSession
    <3>3. sessions[req[q].session].state = "open" /\ sessions[req[q].session].hash = req[q].presented
      BY <3>1 DEF Tokens, Compared, At, Open
    <3> QED
      BY <3>1, <3>2, <3>3 DEF closes
  <2> QED
    BY <2>1 DEF Compared, At, Open
<1>5. Delivered'
  <2>1. ASSUME NEW s \in Sessions, sessions'[s].state = "open"
        PROVE  sessions[s].state = "open" /\ client'[s] = client[s]
    BY <2>1 DEF closes
  <2>2. ASSUME NEW q \in Requests
        PROVE  /\ req'[q].session = req[q].session /\ req'[q].number = req[q].number
               /\ req'[q].step = "reply" <=> req[q].step = "reply"
    BY DEF closes
  <2>3. diverged' = diverged /\ \A s \in Sessions : sessions'[s].hash = sessions[s].hash
    BY DEF closes
  <2> QED
    BY <2>1, <2>2, <2>3 DEF Tokens, Delivered, Open, At
<1>6. DoomedEnd'
  <2>1. ASSUME NEW q \in Requests, NEW s \in req'[q].doomed
        PROVE  IF req'[q].step = "deleteSessions"
               THEN sessions'[s].user = req'[q].user /\ (req'[q].kind = "update" => s # req'[q].session)
               ELSE s \in diverged' \/ sessions'[s].state = "ended"
    <3>1. s \in req[q].doomed /\ s \in Sessions
      BY <2>1 DEF closes, Typed, TypeOK, RequestRecords
    <3>2. CASE req'[q].step = "deleteSessions"
      BY <3>1, <3>2 DEF closes, Tokens, DoomedEnd, At
    <3>3. CASE req'[q].step # "deleteSessions" /\ req[q].step = "deleteSessions"
      BY <3>1, <3>3 DEF closes
    <3>4. CASE req'[q].step # "deleteSessions" /\ req[q].step # "deleteSessions"
      BY <3>1, <3>4 DEF closes, Tokens, DoomedEnd, At
    <3> QED
      BY <3>2, <3>3, <3>4
  <2> QED
    BY <2>1 DEF DoomedEnd, At
<1> QED
  BY <1>1, <1>2, <1>3, <1>4, <1>5, <1>6 DEF Tokens

LEMMA DeleteCloses ==
  ASSUME Typed, Tokens, NEW r \in Requests, deleteSessions(r)
  PROVE  closes(deletedSessions(r))
<1>1. /\ moves(r, "before")
      /\ \A q \in Requests \ {r} :
           req[q].kind = "refresh" /\ req[q].session \in deletedSessions(r) => req'[q].late /\ req'[q].raced
  BY DeleteSessionsMoves
<1>2. At(r, "deleteSessions") /\ req[r].kind \in {"reset", "update"}
  BY KindsAt DEF deleteSessions
<1>3. ASSUME NEW s \in Sessions
      PROVE  /\ sessions'[s].hash = sessions[s].hash /\ sessions'[s].user = sessions[s].user
             /\ IF s \in deletedSessions(r)
                THEN sessions[s].state = "open" /\ sessions'[s].state = "ended"
                ELSE sessions'[s].state = sessions[s].state
  <2>1. sessions[s] \in SessionRows
    BY DEF Typed, TypeOK
  <2>2. s \in deletedSessions(r) => sessions[s].state = "open"
    BY DEF deletedSessions, SessionsOf, Open
  <2>3. sessions'[s] = IF s \in deletedSessions(r) THEN [sessions[s] EXCEPT !.state = "ended"]
                                                  ELSE sessions[s]
    BY DEF deleteSessions
  <2> QED
    BY <2>1, <2>2, <2>3 DEF SessionRows
<1>4. UNCHANGED <<client, redeemed, diverged, started>>
  BY DEF deleteSessions
<1>5. ASSUME NEW s \in req[r].doomed
      PROVE  sessions'[s].state = "ended"
  <2>1. s \in Sessions /\ sessions[s] \in SessionRows
    BY <1>5 DEF Typed, TypeOK, RequestRecords
  <2>2. sessions[s].user = req[r].user /\ (req[r].kind = "update" => s # req[r].session)
    BY <1>2, <1>5 DEF Tokens, DoomedEnd
  <2>3. sessions[s].state # "free"
    BY <1>5, <2>1 DEF Tokens, FreeIsUntouched
  <2>4. CASE sessions[s].state = "open"
    <3>1. s \in deletedSessions(r)
      BY <2>1, <2>2, <2>4 DEF deletedSessions, SessionsOf, Open
    <3> QED
      BY <1>3, <2>1, <3>1
  <2>5. CASE sessions[s].state = "ended"
    BY <1>3, <2>1, <2>5
  <2> QED
    BY <2>1, <2>3, <2>4, <2>5 DEF SessionRows
<1>6. ASSUME NEW q \in Requests \ {r}
      PROVE  SameCall(req[q], req'[q])
  BY <1>1 DEF moves
<1> QED
  BY <1>1, <1>2, <1>3, <1>4, <1>5, <1>6 DEF moves, closes, SameCall, At

LEMMA LogoutCloses ==
  ASSUME Typed, Tokens, NEW s \in Sessions, logout(s)
  PROVE  closes({s})
<1>1. /\ req \in [Requests -> RequestRecords] /\ req' = sessionsWritten({s}, req)
  BY DEF logout, Typed, TypeOK
<1>2. ASSUME NEW q \in Requests
      PROVE  /\ SameCall(req[q], req'[q])
             /\ req[q].kind = "refresh" /\ req[q].session \in {s} => req'[q].raced
  BY <1>1, SessionsWritten
<1>3. sessions[s].state # "free"
  BY DEF logout, SignedIn, Tokens, FreeIsUntouched
<1>4. ASSUME NEW t \in Sessions
      PROVE  /\ sessions'[t].hash = sessions[t].hash /\ sessions'[t].user = sessions[t].user
             /\ IF t = s THEN sessions'[t].state = "ended" /\ client'[t] = 0
                         ELSE sessions'[t].state = sessions[t].state /\ client'[t] = client[t]
  <2>1. sessions[t] \in SessionRows
    BY DEF Typed, TypeOK
  <2>2. sessions'[t] = IF t = s THEN [sessions[t] EXCEPT !.state = "ended"] ELSE sessions[t]
    BY DEF logout, Typed, TypeOK
  <2>3. client'[t] = IF t = s THEN 0 ELSE client[t]
    BY DEF logout, Typed, TypeOK
  <2> QED
    BY <2>1, <2>2, <2>3 DEF SessionRows
<1>5. UNCHANGED <<redeemed, diverged, started>>
  BY DEF logout
<1> QED
  BY <1>2, <1>3, <1>4, <1>5 DEF closes, SameCall

LEMMA CreateTokens ==
  ASSUME Typed, Tokens, NEW r \in Requests, createSession(r)
  PROVE  Tokens'
<1>1. PICK s \in Sessions :
         /\ sessions[s].state = "free"
         /\ sessions' = [sessions EXCEPT ![s] = [user |-> req[r].user, state |-> "open",
                                                hash |-> req[r].number]]
         /\ req' = [req EXCEPT ![r].step = "reply", ![r].session = s]
  BY DEF createSession, FreeSessions
<1>2. /\ \A q \in Requests \ {r} : req'[q] = req[q]
      /\ req'[r].step = "reply" /\ req'[r].session = s
      /\ req'[r].kind = req[r].kind /\ req'[r].number = req[r].number
      /\ req'[r].presented = req[r].presented /\ req'[r].doomed = req[r].doomed
  BY <1>1, CreateSessionMoves
<1>3. /\ req[r].kind = "login" /\ req[r].step = "createSession"
      /\ UNCHANGED <<client, redeemed, diverged, started>>
  BY KindsAt DEF createSession, At
<1>4. /\ sessions'[s].hash = req[r].number /\ sessions'[s].state = "open"
      /\ \A t \in Sessions \ {s} : sessions'[t] = sessions[t]
  BY <1>1 DEF Typed, TypeOK
<1>5. /\ client[s] = 0 /\ redeemed[s] = {}
      /\ \A q \in Requests : req[q].session # s /\ s \notin req[q].doomed
  BY <1>1 DEF Tokens, FreeIsUntouched
<1>6. NumbersAreNew'
  <2>1. ASSUME NEW q \in Requests
        PROVE  /\ req'[q].kind = req[q].kind /\ req'[q].number = req[q].number
               /\ req'[q].presented = req[q].presented
               /\ q # r => (At(q, "reply")' <=> At(q, "reply"))
    BY <1>2 DEF At
  <2>2. At(r, "reply")' /\ req[r].kind # "none"
    BY <1>2, <1>3 DEF At
  <2> QED
    BY <1>3, <1>4, <2>1, <2>2 DEF Tokens, NumbersAreNew
<1>7. FreeIsUntouched'
  <2>1. ASSUME NEW t \in Sessions, sessions'[t].state = "free"
        PROVE  t # s /\ sessions[t].state = "free"
    BY <1>4, <2>1
  <2> QED
    BY <1>2, <1>3, <2>1 DEF Tokens, FreeIsUntouched
<1>8. HashIsNew'
  BY <1>3, <1>4, <1>5 DEF Tokens, HashIsNew
<1>9. Compared'
  <2>1. ASSUME NEW q \in Requests, req'[q].kind = "refresh"
        PROVE  q # r /\ req'[q] = req[q] /\ req[q].session # s /\ req[q].session \in Sessions
    BY <1>2, <1>3, <1>5, <2>1 DEF Typed, Shaped, HasSession
  <2> QED
    BY <1>4, <2>1 DEF Tokens, Compared, At, Open
<1>10. Delivered'
  <2>1. \A q \in Requests : At(q, "reply")' /\ req'[q].session = s => q = r
    BY <1>2, <1>5 DEF At
  <2>2. At(r, "reply")' /\ req'[r].session = s /\ sessions'[s].hash = req'[r].number
    BY <1>2, <1>4 DEF At
  <2>3. ASSUME NEW t \in Sessions \ {s}, NEW q \in Requests
        PROVE  /\ (At(q, "reply")' /\ req'[q].session = t) <=> (At(q, "reply") /\ req[q].session = t)
               /\ req'[q].number = req[q].number
    BY <1>2, <1>3 DEF At
  <2>4. ASSUME NEW t \in Sessions \ {s}
        PROVE  client'[t] = client[t] /\ sessions'[t] = sessions[t] /\ diverged' = diverged
    BY <1>3, <1>4
  <2> QED
    BY <2>1, <2>2, <2>3, <2>4 DEF Tokens, Delivered, Open
<1>11. DoomedEnd'
  <2>1. ASSUME NEW q \in Requests, NEW t \in req'[q].doomed
        PROVE  IF req'[q].step = "deleteSessions"
               THEN sessions'[t].user = req'[q].user /\ (req'[q].kind = "update" => t # req'[q].session)
               ELSE t \in diverged' \/ sessions'[t].state = "ended"
    <3>1. t \in req[q].doomed /\ t # s /\ t \in Sessions
      BY <1>2, <1>5, <2>1 DEF Typed, TypeOK, RequestRecords
    <3>2. sessions'[t] = sessions[t] /\ diverged' = diverged
      BY <1>3, <1>4, <3>1
    <3> QED
      BY <1>2, <1>3, <3>1, <3>2 DEF Tokens, DoomedEnd, At
  <2> QED
    BY <2>1 DEF DoomedEnd, At
<1> QED
  BY <1>6, <1>7, <1>8, <1>9, <1>10, <1>11 DEF Tokens

LEMMA SaveSessionTokens ==
  ASSUME Typed, Tokens, NEW r \in Requests, saveSession(r)
  PROVE  Tokens'
<1> DEFINE s == req[r].session
<1>1. /\ moves(r, "reply")
      /\ \A q \in Requests \ {r} :
           req[q].kind = "refresh" /\ req[q].session = s => req'[q].late /\ req'[q].raced
  BY SaveSessionMoves
<1>2. /\ At(r, "saveSession") /\ req[r].kind = "refresh" /\ s \in Sessions
      /\ UNCHANGED <<client, started>>
  BY KindsAt DEF saveSession, Typed, Shaped, HasSession
<1>3. /\ sessions'[s].hash = req[r].number /\ sessions'[s].state = "open"
      /\ sessions'[s].user = sessions[s].user
      /\ \A t \in Sessions \ {s} : sessions'[t] = sessions[t]
  <2>1. sessions \in [Sessions -> SessionRows]
    BY DEF Typed, TypeOK
  <2>2. sessions' = [sessions EXCEPT ![s].hash = req[r].number, ![s].state = "open"]
    BY DEF saveSession
  <2>3. /\ sessions'[s] = [sessions[s] EXCEPT !.hash = req[r].number, !.state = "open"]
        /\ \A t \in Sessions \ {s} : sessions'[t] = sessions[t]
    BY <1>2, <2>1, <2>2
  <2>4. sessions[s] \in SessionRows
    BY <1>2, <2>1
  <2> QED
    BY <2>3, <2>4 DEF SessionRows
<1>4. /\ redeemed'[s] = redeemed[s] \cup {req[r].presented}
      /\ \A t \in Sessions \ {s} : redeemed'[t] = redeemed[t]
      /\ diverged' = IF req[r].raced THEN diverged \cup {s} ELSE diverged
  BY <1>2 DEF saveSession, Typed, TypeOK
<1>5. ASSUME NEW q \in Requests
      PROVE  /\ req'[q].kind = req[q].kind /\ req'[q].user = req[q].user
             /\ req'[q].session = req[q].session /\ req'[q].number = req[q].number
             /\ req'[q].presented = req[q].presented /\ req'[q].doomed = req[q].doomed
             /\ req[q].raced => req'[q].raced
             /\ q # r => req'[q].step = req[q].step
  BY <1>1 DEF moves, SameCall
<1>6. req'[r].step = "reply"
  BY <1>1 DEF moves
<1>7. ~req[r].raced => sessions[s].state = "open" /\ sessions[s].hash = req[r].presented
  BY <1>2 DEF Tokens, Compared, At, Open
<1> HIDE DEF s
<1>8. NumbersAreNew'
  <2>1. ASSUME NEW q \in Requests
        PROVE  q # r => (At(q, "reply")' <=> At(q, "reply"))
    BY <1>5 DEF At
  <2>2. At(r, "reply")' /\ req[r].kind # "none" /\ started' = started /\ client' = client
    BY <1>2, <1>6 DEF At
  <2>3. ASSUME NEW t \in Sessions
        PROVE  /\ sessions'[t].hash <= started /\ client[t] <= started
               /\ \A h \in redeemed'[t] : h <= started
    BY <1>3, <1>4 DEF Tokens, NumbersAreNew
  <2>4. ASSUME NEW q \in Requests, req[q].kind # "none", NEW t \in Sessions
        PROVE  /\ client[t] # req[q].number /\ req[q].number \notin redeemed'[t]
               /\ ~At(q, "reply")' => sessions'[t].hash # req[q].number
    BY <1>3, <1>4, <2>1, <2>2, <2>4 DEF Tokens, NumbersAreNew
  <2> QED
    BY <1>5, <2>2, <2>3, <2>4 DEF Tokens, NumbersAreNew
<1>9. FreeIsUntouched'
  <2>1. ASSUME NEW t \in Sessions, sessions'[t].state = "free"
        PROVE  t # s /\ sessions[t].state = "free" /\ redeemed'[t] = redeemed[t]
    BY <1>3, <1>4, <2>1
  <2> QED
    BY <1>2, <1>5, <2>1 DEF Tokens, FreeIsUntouched
<1>10. HashIsNew'
  <2>1. req[r].number \notin redeemed[s] /\ req[r].number # req[r].presented
    BY <1>2 DEF Tokens, NumbersAreNew
  <2> QED
    BY <1>3, <1>4, <2>1 DEF Tokens, HashIsNew
<1>11. Compared'
  <2>1. ASSUME NEW q \in Requests, req'[q].kind = "refresh", req'[q].step # "reply", ~req'[q].raced
        PROVE  /\ sessions'[req'[q].session].state = "open"
               /\ sessions'[req'[q].session].hash = req'[q].presented
    <3>1. q # r
      BY <1>6, <2>1
    <3>2. /\ req[q].kind = "refresh" /\ req[q].step # "reply" /\ ~req[q].raced
          /\ req'[q].session = req[q].session /\ req'[q].presented = req[q].presented
      BY <1>5, <2>1, <3>1
    <3>3. req[q].session # s /\ req[q].session \in Sessions
      BY <1>1, <2>1, <3>1, <3>2 DEF s, Typed, Shaped, HasSession
    <3>4. sessions[req[q].session].state = "open" /\ sessions[req[q].session].hash = req[q].presented
      BY <3>2 DEF Tokens, Compared, At, Open
    <3> QED
      BY <1>3, <3>2, <3>3, <3>4
  <2> QED
    BY <2>1 DEF Compared, At, Open
<1>12. Delivered'
  <2>1. ASSUME NEW t \in Sessions \ {s}, t \notin diverged'
        PROVE  /\ t \notin diverged /\ sessions'[t] = sessions[t] /\ client'[t] = client[t]
               /\ \A q \in Requests :
                    /\ (At(q, "reply")' /\ req'[q].session = t) <=> (At(q, "reply") /\ req[q].session = t)
                    /\ req'[q].number = req[q].number
    BY <1>2, <1>3, <1>4, <1>5, <2>1 DEF s, At
  <2>2. ASSUME s \notin diverged', NEW q \in Requests, req'[q].step = "reply", req'[q].session = s
        PROVE  q = r
    <3>1. s \notin diverged /\ sessions[s].hash = req[r].presented
      BY <1>4, <1>7, <2>2
    <3>2. SUFFICES ASSUME q # r PROVE FALSE
      OBVIOUS
    <3>3. At(q, "reply") /\ req[q].session = s
      BY <1>5, <2>2, <3>2 DEF At
    <3>4. sessions[s].hash = req[q].number
      BY <1>2, <3>1, <3>3 DEF Tokens, Delivered
    <3>5. req[q].kind # "none"
      BY <3>3, IdleAt
    <3> QED
      BY <3>1, <3>4, <3>5 DEF Tokens, NumbersAreNew
  <2>3. At(r, "reply")' /\ req'[r].session = s /\ sessions'[s].hash = req'[r].number
    BY <1>3, <1>5, <1>6 DEF s, At
  <2> QED
    BY <2>1, <2>2, <2>3 DEF Tokens, Delivered, Open, At
<1>13. DoomedEnd'
  <2>1. ASSUME NEW q \in Requests, NEW t \in req'[q].doomed
        PROVE  IF req'[q].step = "deleteSessions"
               THEN sessions'[t].user = req'[q].user /\ (req'[q].kind = "update" => t # req'[q].session)
               ELSE t \in diverged' \/ sessions'[t].state = "ended"
    <3>1. t \in req[q].doomed /\ t \in Sessions
      BY <1>5, <2>1 DEF Typed, TypeOK, RequestRecords
    <3>2. (req'[q].step = "deleteSessions" <=> req[q].step = "deleteSessions")
      BY <1>2, <1>5, <1>6 DEF At
    <3>3. IF req[q].step = "deleteSessions"
          THEN sessions[t].user = req[q].user /\ (req[q].kind = "update" => t # req[q].session)
          ELSE t \in diverged \/ sessions[t].state = "ended"
      BY <3>1 DEF Tokens, DoomedEnd, At
    <3>4. sessions'[t].user = sessions[t].user
      BY <1>3, <3>1
    <3>5. t \in diverged \/ sessions[t].state = "ended" => t \in diverged' \/ sessions'[t].state = "ended"
      BY <1>3, <1>4, <1>7, <3>1
    <3> QED
      BY <1>5, <3>2, <3>3, <3>4, <3>5
  <2> QED
    BY <2>1 DEF DoomedEnd, At
<1> QED
  BY <1>8, <1>9, <1>10, <1>11, <1>12, <1>13 DEF Tokens

LEMMA ReplyTokens ==
  ASSUME Typed, Tokens, NEW r \in Requests, reply(r)
  PROVE  Tokens'
<1> DEFINE s == req[r].session
<1>1. /\ ends(r) /\ \A q \in Requests \ {r} : req'[q] = req[q]
  BY Ends DEF reply
<1>2. /\ At(r, "reply") /\ req[r].kind # "none" /\ s \in Sessions
      /\ UNCHANGED <<sessions, redeemed, started>>
  BY KindsAt DEF reply, Typed, Shaped, HasSession
<1>3. /\ req'[r].kind = "none" /\ req'[r].step = "idle" /\ req'[r].session = 0
      /\ req'[r].number = 0 /\ req'[r].presented = 0 /\ req'[r].doomed = {}
  BY <1>1, IdleFields DEF ends, SameCall
<1>4. \/ /\ diverged' = diverged /\ client'[s] = req[r].number
         /\ \A t \in Sessions \ {s} : client'[t] = client[t]
      \/ diverged' = diverged \cup {s} /\ client' = client
  BY <1>2 DEF reply, Typed, TypeOK
<1>5. 0 \notin Sessions
  BY DEF Sessions
<1>6. sessions[s].state # "free"
  BY <1>2 DEF Tokens, FreeIsUntouched
<1> HIDE DEF s
<1>7. NumbersAreNew'
  <2>1. \A t \in Sessions : client'[t] = client[t] \/ client'[t] = req[r].number
    BY <1>4
  <2>2. ASSUME NEW q \in Requests, req'[q].kind # "none"
        PROVE  q # r /\ req'[q] = req[q] /\ req[q].kind # "none"
    BY <1>1, <1>3, <2>2
  <2>3. \A q \in Requests : \/ req'[q] = req[q]
                            \/ req'[q].number = 0 /\ req'[q].presented = 0
    BY <1>1, <1>3
  <2>4. req[r].kind # "none" /\ sessions' = sessions /\ redeemed' = redeemed /\ started' = started
    BY <1>2
  <2>5. /\ started \in Nat
        /\ \A q \in Requests : req[q].kind # "none" => req[q].number # 0
    BY NumbersTypes
  <2>6. \A t \in Sessions : /\ sessions[t].hash <= started /\ client'[t] <= started
                            /\ \A h \in redeemed[t] : h <= started
    BY <2>1 DEF Tokens, NumbersAreNew
  <2>7. \A q \in Requests : req'[q].number <= started /\ req'[q].presented <= started
    BY <2>3, <2>5 DEF Tokens, NumbersAreNew
  <2>8. ASSUME NEW q \in Requests, req'[q].kind # "none"
        PROVE  /\ \A p \in Requests \ {q} : req'[p].number # req'[q].number
               /\ \A p \in Requests : req'[p].presented # req'[q].number
               /\ \A t \in Sessions : /\ client'[t] # req'[q].number /\ req'[q].number \notin redeemed[t]
                                      /\ ~At(q, "reply")' => sessions[t].hash # req'[q].number
    <3>1. q # r /\ req'[q] = req[q] /\ req[q].kind # "none" /\ req[q].number # 0
      BY <2>2, <2>5, <2>8
    <3>2. \A t \in Sessions : client'[t] # req[q].number
      BY <2>1, <3>1, <2>4 DEF Tokens, NumbersAreNew
    <3> QED
      BY <2>3, <3>1, <3>2 DEF Tokens, NumbersAreNew, At
  <2> QED
    BY <2>4, <2>6, <2>7, <2>8 DEF NumbersAreNew
<1>8. FreeIsUntouched'
  <2>1. ASSUME NEW t \in Sessions, sessions'[t].state = "free"
        PROVE  t # s /\ sessions[t].state = "free" /\ client'[t] = client[t]
    BY <1>2, <1>4, <1>6, <2>1
  <2> QED
    BY <1>1, <1>2, <1>3, <1>5, <2>1 DEF Tokens, FreeIsUntouched
<1>9. HashIsNew'
  BY <1>2 DEF Tokens, HashIsNew
<1>10. Compared'
  <2>1. ASSUME NEW q \in Requests, req'[q].kind = "refresh" PROVE req'[q] = req[q]
    BY <1>1, <1>3, <2>1
  <2> QED
    BY <1>2, <2>1 DEF Tokens, Compared, Open, At
<1>11. Delivered'
  <2>1. ASSUME NEW q \in Requests, At(q, "reply")' PROVE At(q, "reply") /\ req'[q] = req[q] /\ q # r
    BY <1>1, <1>3, <2>1 DEF At
  <2>2. ASSUME NEW t \in Sessions \ {s}, t \notin diverged'
        PROVE  /\ t \notin diverged /\ client'[t] = client[t]
               /\ \A q \in Requests :
                    At(q, "reply") /\ req[q].session = t => At(q, "reply")' /\ req'[q].session = t
    <3>1. \A q \in Requests \ {r} : At(q, "reply")' <=> At(q, "reply")
      BY <1>1 DEF At
    <3> QED
      BY <1>1, <1>4, <2>2, <3>1 DEF s
  <2>3. s \notin diverged' => client'[s] = sessions[s].hash /\ s \notin diverged
    BY <1>2, <1>4 DEF s, Tokens, Delivered
  <2> QED
    BY <1>2, <2>1, <2>2, <2>3 DEF Tokens, Delivered, Open
<1>12. DoomedEnd'
  <2>1. \A q \in Requests : req'[q] = req[q] \/ req'[q].doomed = {}
    BY <1>1, <1>3
  <2>2. diverged \subseteq diverged' /\ sessions' = sessions
    BY <1>2, <1>4
  <2>3. \A q \in Requests : req'[q] = req[q] => (At(q, "deleteSessions")' <=> At(q, "deleteSessions"))
    BY DEF At
  <2> QED
    BY <2>1, <2>2, <2>3 DEF Tokens, DoomedEnd
<1> QED
  BY <1>7, <1>8, <1>9, <1>10, <1>11, <1>12 DEF Tokens

LEMMA TokensInit ==
  ASSUME Init
  PROVE  Tokens
<1>1. /\ \A s \in Sessions : /\ sessions[s].hash = 0 /\ sessions[s].state = "free"
                             /\ client[s] = 0 /\ redeemed[s] = {}
      /\ \A r \in Requests : req[r] = Idle
      /\ started = 0
  BY DEF Init
<1>2. 0 \notin Sessions
  BY DEF Sessions
<1>3. NumbersAreNew /\ FreeIsUntouched /\ HashIsNew /\ Compared
  BY <1>1, <1>2, IdleFields DEF NumbersAreNew, FreeIsUntouched, HashIsNew, Compared
<1>4. Delivered /\ DoomedEnd
  BY <1>1, IdleFields DEF Delivered, DoomedEnd, At, Open
<1> QED
  BY <1>3, <1>4 DEF Tokens

LEMMA TokensNext ==
  ASSUME Typed, Typed', Tokens, [Next]_vars
  PROVE  Tokens'
<1>1. ASSUME NEW r \in Requests, Progress(r) PROVE Tokens'
  <2>1. CASE saveNewUser(r) \/ readBefore(r) \/ findUser(r) \/ saveUser(r) \/ readUser(r) \/ findSession(r)
    BY <2>1, StepsQuiet, QuietTokens
  <2>2. CASE deleteSessions(r)
    BY <2>2, DeleteCloses, ClosesTokens
  <2> QED
    BY <1>1, <2>1, <2>2, CreateTokens, SaveSessionTokens, ReplyTokens DEF Progress
<1>2. ASSUME NEW r \in Requests, AuthController(r) \/ UsersController(r) PROVE Tokens'
  BY <1>2, BeginsQuiet, QuietTokens
<1>3. ASSUME NEW u \in Users, forgotPassword(u) \/ removeUser(u) PROVE Tokens'
  BY <1>3, OthersQuiet, QuietTokens
<1>4. ASSUME NEW s \in Sessions, logout(s) PROVE Tokens'
  BY <1>4, LogoutCloses, ClosesTokens
<1>5. CASE UNCHANGED vars
  BY <1>5 DEF vars, Tokens, NumbersAreNew, FreeIsUntouched, HashIsNew, Compared, Delivered,
              DoomedEnd, At, Open
<1> QED
  BY <1>1, <1>2, <1>3, <1>4, <1>5 DEF Next

(* So does what Tokens says of hashes, sessions and clients.                 *)
LEMMA TokensAlways == Spec => []Tokens
<1>1. Init => Tokens
  BY TokensInit
<1>2. Typed /\ Typed' /\ Tokens /\ [Next]_vars => Tokens'
  BY TokensNext
<1> QED
  BY <1>1, <1>2, TypedAlways, PTL DEF Spec

(* As long as no reply is lost and no refreshes overlap, the refresh token   *)
(* of a client is the one auth.service.ts compares with the row: however    *)
(* many requests are under way, nobody is signed out for nothing.           *)
THEOREM ClientKeepsUp == Spec => []ClientCanRefresh
<1>1. Tokens => ClientCanRefresh
  BY DEF Tokens, Delivered, ClientCanRefresh
<1> QED
  BY <1>1, TokensAlways, PTL

(* refreshToken in auth.service.ts exchanges a token once, unless the row was *)
(* written between its comparison of the hash and its save.                  *)
THEOREM TokensAreUsedOnce == Spec => RefreshTokenIsUsedOnce
<1>1. ASSUME Typed, Tokens, NEW r \in Requests, At(r, "saveSession")
      PROVE  req[r].presented \notin redeemed[req[r].session] \/ req[r].raced
  <2>1. req[r].kind = "refresh" /\ req[r].session \in Sessions
    BY <1>1, KindsAt DEF Typed, Shaped, HasSession
  <2>2. ~At(r, "reply")
    BY <1>1 DEF At
  <2> QED
    BY <1>1, <2>1, <2>2 DEF Tokens, Compared, HashIsNew
<1>2. Typed /\ Tokens =>
        \A r \in Requests : At(r, "saveSession") /\ req'[r].step = "reply" =>
          req[r].presented \notin redeemed[req[r].session] \/ req[r].raced
  BY <1>1
<1> QED
  BY <1>2, TypedAlways, TokensAlways, PTL DEF RefreshTokenIsUsedOnce

(* When update or resetPassword stores a new password, the sessions that were *)
(* open when the account was read are over, but for the own one and those a   *)
(* refresh under way has revived.  (A password an admin stores ends none.)    *)
THEOREM OwnPasswordsEndSessions == Spec => OwnPasswordEndsSessions
<1>1. Tokens =>
        \A r \in Requests :
          At(r, "saveUser") /\ req'[r].kind = "none" /\ req[r].dto.password # NoPassword
            /\ req[r].kind \in {"reset", "update"}
          => \A s \in req[r].doomed \ diverged : sessions[s].state = "ended"
  BY DEF Tokens, DoomedEnd, At
<1> QED
  BY <1>1, TokensAlways, PTL DEF OwnPasswordEndsSessions

-----------------------------------------------------------------------------
(* The accounts.  What a request has found is still there, or it is late.   *)
Found(r) ==
  /\ At(r, "saveSession") => req[r].late \/ Open(req[r].session)
  /\ At(r, "saveUser") => req[r].late \/ Present(req[r].user)

(* What a request is going to write is what somebody asked for; the fields   *)
(* that confirmEmail and resetPassword copy are those of the account.       *)
AsTyped == {NoPassword} \cup {Chosen(p) : p \in Passwords}
AsStored == {NoPassword} \cup {Hashed(p) : p \in Passwords}
Meant(r) ==
  /\ req[r].kind # "none" => req[r].user \in Users
  /\ At(r, "deleteSessions") \/ At(r, "before") =>
       req[r].kind = "confirm" \/ req[r].dto.password \in AsTyped
  /\ At(r, "find") \/ At(r, "saveUser") =>
       \/ req[r].kind = "confirm" /\ req[r].outdated
       \/ req[r].dto.password \in AsStored
  /\ req[r].kind = "update" => req[r].dto.status = Undefined /\ req[r].dto.role = Undefined
  /\ req[r].kind = "reset" => \/ req[r].outdated
                              \/ /\ req[r].dto.status = users[req[r].user].status
                                 /\ req[r].dto.role = users[req[r].user].role
  /\ req[r].kind = "confirm" =>
       \/ req[r].outdated
       \/ /\ users[req[r].user].status = "pending" /\ req[r].dto.role = users[req[r].user].role
          /\ At(r, "before") => req[r].dto.password = users[req[r].user].password
          /\ ~At(r, "before") => req[r].dto.password = NoPassword
Reads == \A r \in Requests : Found(r) /\ Meant(r)

(* The other requests notice what a step writes.                           *)
noticed(q) ==
  /\ SameCall(req[q], req'[q])
  /\ req[q].kind # "none" => req'[q].outdated \/ users'[req[q].user] = users[req[q].user]
  /\ At(q, "saveUser") => req'[q].late \/ users'[req[q].user] = users[req[q].user]
  /\ At(q, "saveSession") => req'[q].late \/ sessions'[req[q].session] = sessions[req[q].session]

LEMMA NoticedKept ==
  ASSUME Typed, NEW q \in Requests, Found(q), Meant(q), noticed(q)
  PROVE  Found(q)' /\ Meant(q)'
<1>1. \A step : At(q, step)' <=> At(q, step)
  BY DEF noticed, SameCall, At
<1>2. Found(q)'
  BY <1>1 DEF Found, noticed, SameCall, Open, Present
<1>3. Meant(q)'
  BY <1>1 DEF Meant, noticed, SameCall
<1> QED
  BY <1>2, <1>3

LEMMA EndedReads ==
  ASSUME NEW r \in Requests, ends(r)
  PROVE  Found(r)' /\ Meant(r)'
BY IdleFields DEF ends, SameCall, Found, Meant, At

(* The requests that begin.                                                *)
begun(r) ==
  /\ UNCHANGED <<users, sessions, client, mails, redeemed, diverged>>
  /\ \A q \in Requests \ {r} : req'[q] = req[q]
  /\ req'[r].step # "saveSession" /\ req'[r].step # "saveUser" /\ req'[r].step # "reply"
  /\ Meant(r)'

LEMMA HashesOnce ==
  ASSUME NEW password \in AsTyped, NEW u
  PROVE  passwordToSave(password, u) \in AsStored
BY DEF AsTyped, AsStored, passwordToSave, Chosen, Hashed

LEMMA BegunRight ==
  ASSUME Typed, NEW r \in Requests, NEW kind, NEW step, NEW u \in Users, NEW session,
         NEW presented, NEW dto, NEW doomed,
         typedBegin(r, kind, step, u, session, presented, dto, doomed),
         step # "saveSession", step # "saveUser", step # "reply",
         step = "deleteSessions" \/ step = "before" => kind = "confirm" \/ dto.password \in AsTyped,
         step = "find" => dto.password \in AsStored,
         kind = "update" => dto.status = Undefined /\ dto.role = Undefined,
         kind = "reset" => dto.status = users[u].status /\ dto.role = users[u].role,
         kind = "confirm" => /\ step = "before" /\ users[u].status = "pending"
                             /\ dto.role = users[u].role /\ dto.password = users[u].password,
         UNCHANGED <<users, sessions, client, mails, redeemed, diverged>>
  PROVE  begun(r)
<1>1. Meant(r)'
  BY DEF typedBegin, begins, Meant, At
<1> QED
  BY <1>1 DEF typedBegin, begins, begun

LEMMA BeginsRight ==
  ASSUME Typed, NEW r \in Requests, AuthController(r) \/ UsersController(r)
  PROVE  begun(r)
<1>1. ASSUME NEW u \in Users, NEW p \in Passwords, register(r, u, p) PROVE begun(r)
  <2>1. PICK dto : dto = [status |-> "pending", role |-> "user", password |-> Hashed(p)]
    OBVIOUS
  <2> QED
    BY <1>1, <2>1, BeginRegister, BegunRight DEF register
<1>2. ASSUME NEW u \in Users, NEW p \in Passwords, resetPassword(r, u, p) PROVE begun(r)
  <2>1. PICK dto : dto = [status |-> users[u].status, role |-> users[u].role, password |-> Chosen(p)]
    OBVIOUS
  <2>2. typedBegin(r, "reset", "deleteSessions", u, 0, 0, dto, SessionsOf(u))
    BY <1>2, <2>1, BeginReset
  <2>3. dto.password \in AsTyped /\ dto.status = users[u].status /\ dto.role = users[u].role
    BY <2>1 DEF AsTyped
  <2>4. UNCHANGED <<users, sessions, client, mails, redeemed, diverged>>
    BY <1>2 DEF resetPassword
  <2> QED
    BY <2>2, <2>3, <2>4, BegunRight
<1>3. ASSUME NEW u \in Users, NEW p \in Passwords, validateLogin(r, u, p) PROVE begun(r)
  BY <1>3, BeginLogin, BegunRight DEF validateLogin
<1>4. ASSUME NEW u \in Users, confirmEmail(r, u) PROVE begun(r)
  <2>1. PICK dto : dto = [status |-> "inactive", role |-> users[u].role, password |-> users[u].password]
    OBVIOUS
  <2>2. typedBegin(r, "confirm", "before", u, 0, 0, dto, {})
    BY <1>4, <2>1, BeginConfirm
  <2>3. /\ users[u].status = "pending"
        /\ UNCHANGED <<users, sessions, client, mails, redeemed, diverged>>
    BY <1>4 DEF confirmEmail
  <2>4. dto.role = users[u].role /\ dto.password = users[u].password
    BY <2>1
  <2> QED
    BY <2>2, <2>3, <2>4, BegunRight
<1>5. ASSUME NEW s \in Sessions, updateProfile(r, s) PROVE begun(r)
  <2>1. PICK u : u = sessions[s].user
    OBVIOUS
  <2>2. typedBegin(r, "update", "before", u, s, 0, NoChange, {})
    BY <1>5, <2>1, BeginProfile
  <2>3. u \in Users /\ UNCHANGED <<users, sessions, client, mails, redeemed, diverged>>
    BY <1>5, <2>1 DEF updateProfile, Present
  <2>4. NoChange.password \in AsTyped /\ NoChange.status = Undefined /\ NoChange.role = Undefined
    BY DEF NoChange, AsTyped
  <2> QED
    BY <2>2, <2>3, <2>4, BegunRight
<1>6. ASSUME NEW s \in Sessions, NEW p \in Passwords, update(r, s, p) PROVE begun(r)
  <2>1. PICK u : u = sessions[s].user
    OBVIOUS
  <2>2. PICK dto : dto = [NoChange EXCEPT !.password = Chosen(p)]
    OBVIOUS
  <2>3. typedBegin(r, "update", "deleteSessions", u, s, 0, dto, SessionsOf(u) \ {s})
    BY <1>6, <2>1, <2>2, BeginUpdate
  <2>4. u \in Users /\ UNCHANGED <<users, sessions, client, mails, redeemed, diverged>>
    BY <1>6, <2>1 DEF update, Present
  <2>5. dto.password \in AsTyped /\ dto.status = Undefined /\ dto.role = Undefined
    BY <2>2 DEF NoChange, AsTyped
  <2> QED
    BY <2>3, <2>4, <2>5, BegunRight
<1>7. ASSUME NEW s \in Sessions, NEW h \in refreshTokens(s), refreshToken(r, s, h) PROVE begun(r)
  <2>1. PICK u : u = sessions[s].user
    OBVIOUS
  <2>2. typedBegin(r, "refresh", "readUser", u, s, h, NoChange, {})
    BY <1>7, <2>1, BeginRefresh
  <2>3. u \in Users /\ UNCHANGED <<users, sessions, client, mails, redeemed, diverged>>
    BY <1>7, <2>1 DEF refreshToken, Present
  <2> QED
    BY <2>2, <2>3, BegunRight
<1>8. ASSUME NEW u \in Users, NEW body \in AdminDtos, createUser(r, u, body) PROVE begun(r)
  <2>1. PICK dto : dto = [body EXCEPT !.password = Hashed(body.password.of)]
    OBVIOUS
  <2> QED
    BY <1>8, <2>1, BeginCreate, BegunRight DEF createUser
<1>9. ASSUME NEW u \in Users, NEW body \in AdminDtos, adminUpdate(r, u, body) PROVE begun(r)
  <2>1. PICK dto : dto = [body EXCEPT !.password = passwordToSave(body.password, u)]
    OBVIOUS
  <2>2. typedBegin(r, "adminUpdate", "find", u, 0, 0, dto, {})
    BY <1>9, <2>1, BeginAdmin
  <2>3. body.password \in AsTyped
    BY DEF Dtos, AsTyped, Passphrases, Chosen
  <2>4. dto.password = passwordToSave(body.password, u)
    BY <2>1 DEF Dtos
  <2>5. dto.password \in AsStored
    BY <2>3, <2>4, HashesOnce
  <2>6. UNCHANGED <<users, sessions, client, mails, redeemed, diverged>>
    BY <1>9 DEF adminUpdate
  <2> QED
    BY <2>2, <2>5, <2>6, BegunRight
<1> QED
  BY <1>1, <1>2, <1>3, <1>4, <1>5, <1>6, <1>7, <1>8, <1>9 DEF AuthController, UsersController

(* Who writes an account, and what.                                        *)
writesUser(r, u) ==
  \/ saveNewUser(r) /\ users[u].state = "absent"
  \/ saveUser(r) /\ req[r].user = u /\ users'[u] = savedUser(users[u], req[r].dto)

LEMMA SavesWrite ==
  ASSUME Typed, Reads, NEW r \in Requests, saveNewUser(r) \/ saveUser(r)
  PROVE  /\ ends(r) /\ \A q \in Requests \ {r} : noticed(q)
         /\ UNCHANGED sessions
         /\ \A u \in Users : users'[u] # users[u] => writesUser(r, u)
<1>1. PICK v : v = req[r].user
  OBVIOUS
<1>2. /\ \A u \in Users : u # v => users'[u] = users[u]
      /\ UNCHANGED sessions
      /\ \/ req' = Finish(r) /\ users'[v] = users[v]
         \/ req' = userWritten(v, Finish(r))
  <2>1. CASE saveNewUser(r)
    BY <1>1, <2>1 DEF saveNewUser, Typed, TypeOK
  <2>2. CASE saveUser(r)
    BY <1>1, <2>2 DEF saveUser, Typed, TypeOK
  <2> QED
    BY <2>1, <2>2
<1>3. ends(r)
  BY <1>2, Ends, EndsWritten
<1>4. ASSUME NEW q \in Requests \ {r} PROVE noticed(q)
  <2>1. SameCall(req[q], req'[q])
    BY <1>3, <1>4 DEF ends
  <2>2. At(q, "saveUser") => req[q].kind # "none" /\ req[q].kind # "refresh"
    BY KindsAt
  <2>3. req[q].kind # "none" => req[q].user \in Users
    BY DEF Reads, Meant
  <2>4. CASE req[q].user = v /\ req' = userWritten(v, Finish(r))
    <3>1. req'[q].outdated /\ (req[q].kind # "refresh" => req'[q].late)
      BY <1>4, <2>4, EndsWritten
    <3> QED
      BY <1>2, <2>1, <2>2, <3>1 DEF noticed
  <2>5. CASE req[q].user = v /\ users'[v] = users[v]
    BY <1>2, <2>1, <2>5 DEF noticed
  <2>6. CASE req[q].user # v
    BY <1>2, <2>1, <2>2, <2>3, <2>6 DEF noticed
  <2> QED
    BY <1>2, <2>4, <2>5, <2>6
<1>5. ASSUME NEW u \in Users, users'[u] # users[u] PROVE writesUser(r, u)
  <2>1. u = v
    BY <1>2, <1>5
  <2>2. CASE saveNewUser(r)
    BY <1>1, <1>5, <2>1, <2>2 DEF writesUser, saveNewUser
  <2>3. CASE saveUser(r)
    BY <1>1, <1>5, <2>1, <2>3 DEF writesUser, saveUser, Typed, TypeOK
  <2> QED
    BY <2>2, <2>3
<1> QED
  BY <1>2, <1>3, <1>4, <1>5

LEMMA MoversMean ==
  ASSUME Typed, NEW r \in Requests, Found(r), Meant(r), NEW step, moves(r, step),
         req'[r].dto = req[r].dto, UNCHANGED users, step # "deleteSessions", step # "find",
         step = "before" => At(r, "deleteSessions"), step = "saveUser" => At(r, "find"),
         req[r].kind = "confirm" => ~At(r, "before")
  PROVE  Meant(r)'
<1>1. req[r].kind # "none" => req[r].user \in Users
  BY DEF Meant
<1>2. /\ req'[r].kind = req[r].kind /\ req'[r].user = req[r].user
      /\ req'[r].outdated = req[r].outdated /\ req'[r].step = step
  BY DEF moves
<1>3. step = "before" => req[r].kind = "confirm" \/ req[r].dto.password \in AsTyped
  BY DEF Meant
<1>4. step = "saveUser" => \/ req[r].kind = "confirm" /\ req[r].outdated
                          \/ req[r].dto.password \in AsStored
  BY DEF Meant
<1>5. req[r].kind = "confirm" => step # "before"
  BY KindsAt
<1> QED
  BY <1>1, <1>2, <1>3, <1>4, <1>5 DEF Meant, At

LEMMA ReadBeforeMeans ==
  ASSUME Typed, NEW r \in Requests, Meant(r), readBefore(r)
  PROVE  Meant(r)'
<1>1. /\ moves(r, "find") /\ At(r, "before") /\ users' = users
      /\ req'[r].dto = [req[r].dto EXCEPT !.password = passwordToSave(req[r].dto.password, req[r].user)]
  BY ReadBeforeMoves DEF readBefore
<1>2. req[r].dto \in Dtos
  BY DEF Typed, TypeOK, RequestRecords
<1>3. /\ req'[r].dto.password = passwordToSave(req[r].dto.password, req[r].user)
      /\ req'[r].dto.status = req[r].dto.status /\ req'[r].dto.role = req[r].dto.role
  BY <1>1, <1>2 DEF Dtos
<1>4. req[r].kind # "confirm" => req'[r].dto.password \in AsStored
  BY <1>1, <1>3, HashesOnce DEF Meant
<1>5. req[r].kind = "confirm" /\ ~req[r].outdated => req'[r].dto.password = NoPassword
  BY <1>1, <1>3 DEF Meant, passwordToSave
<1>6. NoPassword \in AsStored
  BY DEF AsStored
<1> QED
  BY <1>1, <1>3, <1>4, <1>5, <1>6 DEF moves, Meant, At

LEMMA ProgressReads ==
  ASSUME Typed, Tokens, Reads, NEW r \in Requests, Progress(r)
  PROVE  Reads'
<1>0. Found(r) /\ Meant(r) /\ \A q \in Requests : Found(q) /\ Meant(q)
  BY DEF Reads
<1>1. CASE saveNewUser(r) \/ saveUser(r)
  BY <1>0, <1>1, SavesWrite, NoticedKept, EndedReads DEF Reads
<1>2. CASE deleteSessions(r)
  <2>1. /\ moves(r, "before") /\ req'[r].dto = req[r].dto
        /\ \A q \in Requests \ {r} :
             req[q].kind = "refresh" /\ req[q].session \in deletedSessions(r) => req'[q].late
    BY <1>2, DeleteSessionsMoves
  <2>2. /\ At(r, "deleteSessions") /\ users' = users
        /\ \A s \in Sessions \ deletedSessions(r) : sessions'[s] = sessions[s]
    BY <1>2 DEF deleteSessions
  <2>3. ASSUME NEW q \in Requests \ {r} PROVE noticed(q)
    <3>1. SameCall(req[q], req'[q])
      BY <2>1 DEF moves
    <3>2. At(q, "saveSession") => req[q].kind = "refresh" /\ req[q].session \in Sessions
      BY KindsAt DEF Typed, Shaped, HasSession
    <3> QED
      BY <2>1, <2>2, <3>1, <3>2 DEF noticed
  <2>4. Meant(r)'
    BY <1>0, <2>1, <2>2, MoversMean DEF At
  <2>5. Found(r)'
    BY <2>1 DEF moves, Found, At
  <2> QED
    BY <1>0, <2>3, <2>4, <2>5, NoticedKept DEF Reads
<1>3. ASSUME \A q \in Requests \ {r} : req'[q] = req[q], UNCHANGED <<users, sessions>>,
             Found(r)', Meant(r)'
      PROVE  Reads'
  <2>1. ASSUME NEW q \in Requests \ {r} PROVE noticed(q)
    BY <1>3 DEF noticed, SameCall
  <2> QED
    BY <1>0, <1>3, <2>1, NoticedKept DEF Reads
<1>4. CASE readBefore(r)
  <2>1. /\ moves(r, "find") /\ \A q \in Requests \ {r} : req'[q] = req[q]
        /\ UNCHANGED <<users, sessions>>
    BY <1>4, ReadBeforeMoves DEF readBefore
  <2>2. Meant(r)'
    BY <1>0, <1>4, ReadBeforeMeans
  <2>3. Found(r)'
    BY <2>1 DEF moves, Found, At
  <2> QED
    BY <1>3, <2>1, <2>2, <2>3
<1>5. CASE findUser(r)
  <2>1. /\ \A q \in Requests \ {r} : req'[q] = req[q]
        /\ At(r, "find") /\ UNCHANGED <<users, sessions>>
    BY <1>5, FindUserMoves DEF findUser
  <2>2. CASE Present(req[r].user) /\ moves(r, "saveUser") /\ req'[r].dto = req[r].dto
    <3>1. Meant(r)'
      BY <1>0, <2>1, <2>2, MoversMean DEF At
    <3>2. Found(r)'
      BY <2>1, <2>2 DEF moves, Found, At, Present
    <3> QED
      BY <1>3, <2>1, <3>1, <3>2
  <2>3. CASE ends(r)
    BY <1>3, <2>1, <2>3, EndedReads
  <2> QED
    BY <1>5, <2>2, <2>3, FindUserMoves
<1>6. CASE createSession(r)
  <2>1. PICK s \in Sessions :
           /\ sessions[s].state = "free"
           /\ sessions' = [sessions EXCEPT ![s] = [user |-> req[r].user, state |-> "open",
                                                  hash |-> req[r].number]]
           /\ req' = [req EXCEPT ![r].step = "reply", ![r].session = s]
    BY <1>6 DEF createSession, FreeSessions
  <2>2. /\ \A q \in Requests \ {r} : req'[q] = req[q]
        /\ req'[r].step = "reply" /\ req'[r].kind = req[r].kind /\ req'[r].user = req[r].user
    BY <2>1, CreateSessionMoves
  <2>3. req[r].kind = "login" /\ users' = users
    BY <1>6, KindsAt DEF createSession
  <2>4. ASSUME NEW q \in Requests \ {r} PROVE noticed(q)
    <3>1. req[q].session # s
      BY <2>1 DEF Tokens, FreeIsUntouched
    <3>2. At(q, "saveSession") => req[q].session \in Sessions
      BY KindsAt DEF Typed, Shaped, HasSession
    <3>3. At(q, "saveSession") => sessions'[req[q].session] = sessions[req[q].session]
      BY <2>1, <3>1, <3>2 DEF Typed, TypeOK
    <3> QED
      BY <2>2, <2>3, <3>3 DEF noticed, SameCall
  <2>5. Found(r)' /\ Meant(r)'
    BY <1>0, <2>2, <2>3 DEF Found, Meant, At
  <2> QED
    BY <1>0, <2>4, <2>5, NoticedKept DEF Reads
<1>7. CASE readUser(r)
  <2>1. req' = Goto(r, "findSession") \/ req' = Finish(r)
    BY <1>7 DEF readUser
  <2>2. "findSession" \in Steps
    BY DEF Steps
  <2>3. /\ \A q \in Requests \ {r} : req'[q] = req[q]
        /\ UNCHANGED <<users, sessions>> /\ req[r].kind = "refresh"
    BY <1>7, <2>1, <2>2, Goes, Ends, KindsAt DEF readUser
  <2>4. CASE moves(r, "findSession")
    <3>1. Found(r)' /\ Meant(r)'
      BY <1>0, <2>3, <2>4 DEF moves, Found, Meant, At
    <3> QED
      BY <1>3, <2>3, <3>1
  <2>5. CASE ends(r)
    BY <1>3, <2>3, <2>5, EndedReads
  <2> QED
    BY <2>1, <2>2, <2>4, <2>5, Goes, Ends
<1>8. CASE findSession(r)
  <2>1. /\ \A q \in Requests \ {r} : req'[q] = req[q]
        /\ UNCHANGED <<users, sessions>> /\ req[r].kind = "refresh"
    BY <1>8, FindSessionMoves, KindsAt DEF findSession
  <2>2. CASE Open(req[r].session) /\ moves(r, "saveSession")
    <3>1. Found(r)' /\ Meant(r)'
      BY <1>0, <2>1, <2>2 DEF moves, Found, Meant, At, Open
    <3> QED
      BY <1>3, <2>1, <3>1
  <2>3. CASE ends(r)
    BY <1>3, <2>1, <2>3, EndedReads
  <2> QED
    BY <1>8, <2>2, <2>3, FindSessionMoves
<1>9. CASE saveSession(r)
  <2>1. /\ moves(r, "reply") /\ req'[r].dto = req[r].dto
        /\ \A q \in Requests \ {r} :
             req[q].kind = "refresh" /\ req[q].session = req[r].session => req'[q].late
    BY <1>9, SaveSessionMoves
  <2>2. /\ users' = users /\ req[r].kind = "refresh"
        /\ \A s \in Sessions \ {req[r].session} : sessions'[s] = sessions[s]
    BY <1>9, KindsAt DEF saveSession, Typed, TypeOK
  <2>3. ASSUME NEW q \in Requests \ {r} PROVE noticed(q)
    <3>1. SameCall(req[q], req'[q])
      BY <2>1 DEF moves
    <3>2. At(q, "saveSession") => req[q].kind = "refresh" /\ req[q].session \in Sessions
      BY KindsAt DEF Typed, Shaped, HasSession
    <3> QED
      BY <2>1, <2>2, <3>1, <3>2 DEF noticed
  <2>4. Found(r)' /\ Meant(r)'
    BY <1>0, <2>1, <2>2 DEF moves, Found, Meant, At
  <2> QED
    BY <1>0, <2>3, <2>4, NoticedKept DEF Reads
<1>10. CASE reply(r)
  BY <1>3, <1>10, Ends, EndedReads DEF reply
<1> QED
  BY <1>1, <1>2, <1>4, <1>5, <1>6, <1>7, <1>8, <1>9, <1>10 DEF Progress

LEMMA ReadsNext ==
  ASSUME Typed, Tokens, Reads, [Next]_vars
  PROVE  Reads'
<1>0. \A q \in Requests : Found(q) /\ Meant(q)
  BY DEF Reads
<1>1. ASSUME NEW r \in Requests, Progress(r) PROVE Reads'
  BY <1>1, ProgressReads
<1>2. ASSUME NEW r \in Requests, AuthController(r) \/ UsersController(r) PROVE Reads'
  <2>1. begun(r)
    BY <1>2, BeginsRight
  <2>2. ASSUME NEW q \in Requests \ {r} PROVE noticed(q)
    BY <2>1 DEF begun, noticed, SameCall
  <2>3. Found(r)' /\ Meant(r)'
    BY <2>1 DEF begun, Found, At
  <2> QED
    BY <1>0, <2>2, <2>3, NoticedKept DEF Reads
<1>3. ASSUME NEW u \in Users, forgotPassword(u) PROVE Reads'
  BY <1>3 DEF forgotPassword, Reads, Found, Meant, At, Open, Present
<1>4. ASSUME NEW u \in Users, removeUser(u) PROVE Reads'
  <2>1. /\ req \in [Requests -> RequestRecords] /\ req' = userWritten(u, req)
        /\ \A v \in Users : v # u => users'[v] = users[v]
        /\ sessions' = sessions
    BY <1>4 DEF removeUser, Typed, TypeOK
  <2>2. ASSUME NEW q \in Requests PROVE noticed(q)
    <3>1. /\ SameCall(req[q], req'[q])
          /\ req[q].user = u => req'[q].outdated /\ (req[q].kind # "refresh" => req'[q].late)
      BY <2>1, UserWritten
    <3>2. At(q, "saveUser") => req[q].kind # "none" /\ req[q].kind # "refresh"
      BY KindsAt
    <3>3. req[q].kind # "none" => req[q].user \in Users
      BY <1>0 DEF Meant
    <3> QED
      BY <2>1, <3>1, <3>2, <3>3 DEF noticed
  <2> QED
    BY <1>0, <2>2, NoticedKept DEF Reads
<1>5. ASSUME NEW s \in Sessions, logout(s) PROVE Reads'
  <2>1. /\ req \in [Requests -> RequestRecords] /\ req' = sessionsWritten({s}, req)
        /\ \A t \in Sessions : t # s => sessions'[t] = sessions[t]
        /\ users' = users
    BY <1>5 DEF logout, Typed, TypeOK
  <2>2. ASSUME NEW q \in Requests PROVE noticed(q)
    <3>1. /\ SameCall(req[q], req'[q])
          /\ req[q].kind = "refresh" /\ req[q].session \in {s} => req'[q].late
      BY <2>1, SessionsWritten
    <3>2. At(q, "saveSession") => req[q].kind = "refresh" /\ req[q].session \in Sessions
      BY KindsAt DEF Typed, Shaped, HasSession
    <3> QED
      BY <2>1, <3>1, <3>2 DEF noticed
  <2> QED
    BY <1>0, <2>2, NoticedKept DEF Reads
<1>6. CASE UNCHANGED vars
  BY <1>6 DEF vars, Reads, Found, Meant, At, Open, Present
<1> QED
  BY <1>1, <1>2, <1>3, <1>4, <1>5, <1>6 DEF Next

(* And what Reads says of the rows requests of AuthSessions have read.       *)
LEMMA ReadsAlways == Spec => []Reads
<1>1. Init => Reads
  BY IdleFields DEF Init, Reads, Found, Meant, At
<1>2. Typed /\ Tokens /\ Reads /\ [Next]_vars => Reads'
  BY ReadsNext
<1> QED
  BY <1>1, <1>2, TypedAlways, TokensAlways, PTL DEF Spec

LEMMA UserWriters ==
  ASSUME Typed, Tokens, Reads, [Next]_vars, NEW u \in Users, users'[u] # users[u]
  PROVE  \/ \E r \in Requests : writesUser(r, u)
         \/ Present(u) /\ users'[u].state = "deleted"
<1>1. ASSUME NEW r \in Requests, Progress(r) PROVE \E q \in Requests : writesUser(q, u)
  <2>1. CASE saveNewUser(r) \/ saveUser(r)
    BY <2>1, SavesWrite
  <2>2. CASE \/ deleteSessions(r) \/ readBefore(r) \/ findUser(r) \/ createSession(r) \/ readUser(r)
             \/ findSession(r) \/ saveSession(r) \/ reply(r)
    <3>1. users' = users
      BY <2>2 DEF deleteSessions, readBefore, findUser, createSession, readUser, findSession,
                  saveSession, reply
    <3> QED
      BY <3>1
  <2> QED
    BY <1>1, <2>1, <2>2 DEF Progress
<1>2. ASSUME NEW r \in Requests, AuthController(r) \/ UsersController(r) PROVE users' = users
  BY <1>2, BeginsRight DEF begun
<1>3. ASSUME NEW v \in Users, removeUser(v) PROVE Present(u) /\ users'[u].state = "deleted"
  <2>1. u = v
    BY <1>3 DEF removeUser, Typed, TypeOK
  <2>2. users'[u] = [users[u] EXCEPT !.state = "deleted"] /\ users[u] \in UserRows
    BY <1>3, <2>1 DEF removeUser, Typed, TypeOK
  <2> QED
    BY <1>3, <2>1, <2>2 DEF removeUser, UserRows
<1>4. ASSUME NEW v \in Users, forgotPassword(v) PROVE users' = users
  BY <1>4 DEF forgotPassword
<1>5. ASSUME NEW s \in Sessions, logout(s) PROVE users' = users
  BY <1>5 DEF logout
<1>6. CASE UNCHANGED vars
  BY <1>6 DEF vars
<1> QED
  BY <1>1, <1>2, <1>3, <1>4, <1>5, <1>6 DEF Next

LEMMA SessionWriters ==
  ASSUME Typed, Tokens, Reads, [Next]_vars, NEW s \in Sessions, sessions[s].state = "ended",
         sessions'[s].state # "ended"
  PROVE  \E r \in Requests : At(r, "saveSession") /\ req[r].session = s
<1>1. ASSUME NEW r \in Requests, Progress(r)
      PROVE  \E q \in Requests : At(q, "saveSession") /\ req[q].session = s
  <2>1. CASE saveNewUser(r) \/ readBefore(r) \/ findUser(r) \/ readUser(r) \/ findSession(r) \/ reply(r) \/ saveUser(r)
    <3>1. sessions' = sessions
      BY <2>1 DEF saveNewUser, readBefore, findUser, readUser, findSession, reply, saveUser
    <3> QED
      BY <3>1
  <2>2. CASE deleteSessions(r)
    BY <2>2, DeleteCloses DEF closes
  <2>3. CASE createSession(r)
    <3>1. PICK t \in Sessions :
             /\ sessions[t].state = "free"
             /\ sessions' = [sessions EXCEPT ![t] = [user |-> req[r].user, state |-> "open",
                                                    hash |-> req[r].number]]
      BY <2>3 DEF createSession, FreeSessions
    <3>2. sessions'[s] = sessions[s]
      BY <3>1 DEF Typed, TypeOK
    <3> QED
      BY <3>2
  <2>4. CASE saveSession(r)
    <3>1. req[r].session # s => sessions'[s] = sessions[s]
      BY <2>4 DEF saveSession, Typed, TypeOK
    <3> QED
      BY <2>4, <3>1 DEF saveSession
  <2> QED
    BY <1>1, <2>1, <2>2, <2>3, <2>4 DEF Progress
<1>2. ASSUME NEW r \in Requests, AuthController(r) \/ UsersController(r) PROVE sessions' = sessions
  BY <1>2, BeginsRight DEF begun
<1>3. ASSUME NEW u \in Users, forgotPassword(u) \/ removeUser(u) PROVE sessions' = sessions
  BY <1>3 DEF forgotPassword, removeUser
<1>4. ASSUME NEW t \in Sessions, logout(t) PROVE FALSE
  BY <1>4, LogoutCloses DEF closes
<1>5. CASE UNCHANGED vars
  BY <1>5 DEF vars
<1> QED
  BY <1>1, <1>2, <1>3, <1>4, <1>5 DEF Next

(* Saving a whole row that was read before may undo a deletion or a logout,  *)
(* and nothing else can: the row went away between that read and the save.   *)
THEOREM OnlyLateSavesRevive == Spec => NothingComesBack
<1>1. ASSUME Typed, Tokens, Reads, [Next]_vars
      PROVE  /\ \A u \in Users : users[u].state = "deleted" /\ users'[u].state # "deleted"
                  => \E r \in Requests : At(r, "saveUser") /\ req[r].user = u /\ req[r].late
             /\ \A s \in Sessions : sessions[s].state = "ended" /\ sessions'[s].state # "ended"
                  => \E r \in Requests : At(r, "saveSession") /\ req[r].session = s /\ req[r].late
  <2>1. ASSUME NEW u \in Users, users[u].state = "deleted", users'[u].state # "deleted"
        PROVE  \E r \in Requests : At(r, "saveUser") /\ req[r].user = u /\ req[r].late
    <3>1. users'[u] # users[u]
      BY <2>1
    <3>2. PICK r \in Requests : writesUser(r, u)
      BY <1>1, <2>1, <3>1, UserWriters DEF Present
    <3>3. At(r, "saveUser") /\ req[r].user = u
      BY <2>1, <3>2 DEF writesUser, saveUser
    <3>4. Found(r) /\ ~Present(u)
      BY <1>1, <2>1 DEF Reads, Present
    <3> QED
      BY <3>3, <3>4 DEF Found
  <2>2. ASSUME NEW s \in Sessions, sessions[s].state = "ended", sessions'[s].state # "ended"
        PROVE  \E r \in Requests : At(r, "saveSession") /\ req[r].session = s /\ req[r].late
    <3>1. PICK r \in Requests : At(r, "saveSession") /\ req[r].session = s
      BY <1>1, <2>2, SessionWriters
    <3>2. Found(r) /\ ~Open(s)
      BY <1>1, <2>2 DEF Reads, Open
    <3> QED
      BY <3>1, <3>2 DEF Found
  <2> QED
    BY <2>1, <2>2
<1> QED
  BY <1>1, TypedAlways, TokensAlways, ReadsAlways, PTL DEF Spec, NothingComesBack

(* users.update may save what it read long before; while the account stays   *)
(* as it was, its password only becomes one somebody chose, hashed once, and *)
(* its role and status those of an admin or of the confirmation.            *)
THEOREM DecisionsKept == Spec => DecisionsAreKept
<1>1. ASSUME Typed, Tokens, Reads, [Next]_vars, NEW u \in Users, Present(u), users'[u] # users[u],
             users'[u].state # "deleted"
      PROVE  \E r \in Requests :
               /\ At(r, "saveUser") /\ req[r].user = u
               /\ \/ req[r].outdated
                  \/ /\ users'[u].password \in {users[u].password} \cup {Hashed(p) : p \in Passwords}
                     /\ users'[u].password # users[u].password => req[r].kind # "confirm"
                     /\ users'[u].role # users[u].role => req[r].kind = "adminUpdate"
                     /\ users'[u].status # users[u].status =>
                          \/ req[r].kind = "adminUpdate"
                          \/ req[r].kind = "confirm" /\ users[u].status = "pending"
  <2>1. PICK r \in Requests : writesUser(r, u)
    BY <1>1, UserWriters
  <2>2. At(r, "saveUser") /\ req[r].user = u /\ users'[u] = savedUser(users[u], req[r].dto)
    BY <1>1, <2>1 DEF writesUser, saveUser, Present
  <2>3. /\ users'[u].status = IF req[r].dto.status = Undefined THEN users[u].status ELSE req[r].dto.status
        /\ users'[u].role = IF req[r].dto.role = Undefined THEN users[u].role ELSE req[r].dto.role
        /\ users'[u].password = IF req[r].dto.password = NoPassword THEN users[u].password
                                ELSE req[r].dto.password
    BY <2>2 DEF savedUser
  <2>4. req[r].kind \in {"confirm", "reset", "update", "adminUpdate"} /\ Meant(r)
    BY <1>1, <2>2, KindsAt DEF Reads
  <2>5. CASE ~req[r].outdated
    <3>1. req[r].dto.password \in AsStored /\ (req[r].kind = "confirm" => req[r].dto.password = NoPassword)
      BY <2>2, <2>4, <2>5 DEF Meant, At
    <3>2. /\ req[r].kind = "update" => req[r].dto.status = Undefined /\ req[r].dto.role = Undefined
          /\ req[r].kind = "reset" => /\ req[r].dto.status = users[u].status
                                      /\ req[r].dto.role = users[u].role
          /\ req[r].kind = "confirm" => /\ users[u].status = "pending"
                                        /\ req[r].dto.role = users[u].role
      BY <2>2, <2>4, <2>5 DEF Meant
    <3>3. users'[u].password \in {users[u].password} \cup {Hashed(p) : p \in Passwords}
      BY <2>3, <3>1 DEF AsStored
    <3>4. users'[u].password # users[u].password => req[r].kind # "confirm"
      BY <2>3, <3>1
    <3>5. users'[u].role # users[u].role => req[r].kind = "adminUpdate"
      BY <2>3, <2>4, <3>2
    <3>6. users'[u].status # users[u].status =>
            \/ req[r].kind = "adminUpdate"
            \/ req[r].kind = "confirm" /\ users[u].status = "pending"
      BY <2>3, <2>4, <3>2
    <3> QED
      BY <2>2, <3>3, <3>4, <3>5, <3>6
  <2> QED
    BY <2>2, <2>5
<1>2. Typed /\ Tokens /\ Reads /\ [Next]_vars =>
        \A u \in Users : Present(u) /\ users'[u] # users[u] =>
          \/ users'[u].state = "deleted"
          \/ \E r \in Requests :
               /\ At(r, "saveUser") /\ req[r].user = u
               /\ \/ req[r].outdated
                  \/ /\ users'[u].password \in {users[u].password} \cup {Hashed(p) : p \in Passwords}
                     /\ users'[u].password # users[u].password => req[r].kind # "confirm"
                     /\ users'[u].role # users[u].role => req[r].kind = "adminUpdate"
                     /\ users'[u].status # users[u].status =>
                          \/ req[r].kind = "adminUpdate"
                          \/ req[r].kind = "confirm" /\ users[u].status = "pending"
  BY <1>1
<1> QED
  BY <1>2, TypedAlways, TokensAlways, ReadsAlways, PTL DEF Spec, DecisionsAreKept
=============================================================================
