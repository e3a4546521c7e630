------------------------ MODULE DiagnosticConnection ------------------------
(***************************************************************************)
(* The connection HeatingService keeps for the diagnostic endpoints         *)
(* (heating.service.ts, this.fritzBox), with the FritzBox,                  *)
(* DefaultSessionManager, AhaClient and RetryPolicy objects behind it and   *)
(* the sessions on the FRITZ!Box.                                          *)
(*                                                                         *)
(* Requests overlap.  Each is a sequence of stages, a stage one or several  *)
(* AHA commands in parallel; every HTTP exchange is a step.  A session id   *)
(* is the number of its login.                                             *)
(***************************************************************************)
EXTENDS Naturals, FiniteSets

CONSTANTS Requests,     \* request slots
          Boxes,        \* FritzBox objects alive at a time
          Width,        \* commands a temperature query sends in parallel
          MaxAttempts,  \* RetryPolicy.maxAttempts
          MaxLogins,    \* bound: sessions the box opens
          MaxFaults     \* bound: failed HTTP exchanges, 401 or 403 on a live session

None == "none"
Commands == 1..Width
Sids == 1..MaxLogins

ASSUME BoundsAssumption ==
  /\ Width \in Nat \ {0} /\ MaxAttempts \in Nat \ {0}
  /\ MaxLogins \in Nat /\ MaxFaults \in Nat
ASSUME NoneAssumption == None \notin Boxes

VARIABLES
  fritzBox,   \* this.fritzBox
  box,        \* the objects: state, sid (0 for undefined), authenticate() calls under way
  alive,      \* sessions that exist on the FRITZ!Box
  req,        \* requests: what they do, on which object, with which sid they log out
  cmd,        \* their AHA commands
  logins, faults,
  left        \* history: sessions no request can end any more, from the step that leaves them behind
vars == <<fritzBox, box, alive, req, cmd, logins, faults, left>>

\* A command waits for a sid, is sent, and after a 401 or 403 waits and is sent
\* again.  `deaths' is history: sessions that ended since it was started, with the
\* one it started with if that was over by then, and live ones the box rejected it
\* with (up to 2).
NoCommand == [step |-> "idle", sid |-> 0, attempt |-> 1, deaths |-> 0]
Idle == [step |-> "idle", box |-> None, sid |-> 0, stages |-> 0, failed |-> FALSE]
Unused == [state |-> "disconnected", sid |-> 0, calls |-> 0]

Init ==
  /\ fritzBox = None
  /\ box = [b \in Boxes |-> Unused]
  /\ alive = {}
  /\ req = [r \in Requests |-> Idle]
  /\ cmd = [r \in Requests |-> [i \in Commands |-> NoCommand]]
  /\ logins = 0 /\ faults = 0
  /\ left = {}

-----------------------------------------------------------------------------
(* DefaultSessionManager *)

getSid_ownLogin(b, boxes) ==
  IF boxes[b].sid # 0 THEN boxes ELSE [boxes EXCEPT ![b].calls = @ + 1]

\* getSid without a sid: the login under way is shared, or one is begun.
getSid(b, boxes) ==
  IF boxes[b].sid # 0 \/ boxes[b].calls # 0 THEN boxes ELSE [boxes EXCEPT ![b].calls = 1]

\* The commands `is' of r, as execute leaves them after it asked for a sid.
Sent(r, is, b) ==
  [cmd EXCEPT ![r] = [i \in Commands |->
     IF i \notin is THEN @[i]
     ELSE [step |-> IF box[b].sid # 0 THEN "sent" ELSE "waiting", sid |-> box[b].sid,
           attempt |-> 1, deaths |-> IF box[b].sid \in alive \cup {0} THEN 0 ELSE 1]]]

Waiting(r, i, b) == req[r].box = b /\ cmd[r][i].step \in {"waiting", "waitingAgain"}
Connecting(b) == {r \in Requests : req[r].step = "connecting" /\ req[r].box = b}

\* Objects that nothing refers to any more are gone.
Kept(boxes) ==
  [b \in Boxes |-> IF b = fritzBox' \/ boxes[b].calls # 0 \/ \E r \in Requests : req'[r].box = b
                   THEN boxes[b] ELSE Unused]

\* Login attempts whose replies are lost: each opens a session nobody has the sid of.
lostLogins(lost) == (logins + 1)..(logins + lost)

\* The session an object holds the sid of.
session(b) == IF b = None THEN {} ELSE {box[b].sid} \cap alive

\* The box answers the login, at the latest the last attempt: those who share it
\* go on, connect makes the object the current one and forgets the one before.
loginSucceeds(b) ==
  \E lost \in 0..(MaxAttempts - 1) :
  LET sid == logins + lost + 1 IN
  /\ box[b].calls # 0 /\ sid \in Sids /\ faults + lost <= MaxFaults
  /\ logins' = sid
  /\ faults' = faults + lost
  /\ alive' = alive \cup lostLogins(lost) \cup {sid}
  /\ cmd' = [r \in Requests |-> [i \in Commands |->
               IF Waiting(r, i, b)
               THEN [cmd[r][i] EXCEPT !.sid = sid, !.attempt = 1,
                       !.step = IF @ = "waiting" THEN "sent" ELSE "sentAgain"]
               ELSE cmd[r][i]]]
  /\ req' = [r \in Requests |-> IF r \in Connecting(b) THEN Idle ELSE req[r]]
  /\ IF Connecting(b) # {}
     THEN /\ fritzBox' = b
          /\ left' = left \cup lostLogins(lost) \cup session(fritzBox)
     ELSE /\ left' = left \cup lostLogins(lost) \cup (IF fritzBox = b THEN {} ELSE {sid})
          /\ UNCHANGED fritzBox
  /\ box' = Kept([box EXCEPT ![b].sid = sid, ![b].calls = @ - 1,
                             ![b].state = IF Connecting(b) # {} THEN "connected" ELSE @])

loginFails_keepsPromise(b) ==
  /\ box[b].calls # 0 /\ (faults < MaxFaults \/ logins = MaxLogins)
  /\ faults' = IF faults < MaxFaults THEN faults + 1 ELSE faults
  /\ req' = [r \in Requests |-> IF r \in Connecting(b) THEN Idle ELSE req[r]]
  /\ UNCHANGED <<fritzBox, alive, cmd, logins, left>>
  /\ box' = Kept([box EXCEPT ![b].calls = 0,
                             ![b].state = IF Connecting(b) # {} THEN "disconnected" ELSE @])

\* The last attempt and any before it get no answer, or one that refuses.
loginUnanswered ==
  \/ /\ logins = MaxLogins
     /\ UNCHANGED <<logins, faults, alive, left>>
  \/ \E lost \in 0..MaxAttempts :
       /\ faults' = IF lost = 0 THEN faults + 1 ELSE faults + lost
       /\ logins' = logins + lost
       /\ faults' <= MaxFaults /\ logins' <= MaxLogins
       /\ alive' = alive \cup lostLogins(lost)
       /\ left' = left \cup lostLogins(lost)

\* The login fails for all who share it.
loginFails(b) ==
  LET failing == {r \in Requests : \E i \in Commands : Waiting(r, i, b)} IN
  /\ box[b].calls # 0
  /\ loginUnanswered
  /\ cmd' = [r \in Requests |-> [i \in Commands |->
               IF Waiting(r, i, b) THEN NoCommand ELSE cmd[r][i]]]
  /\ req' = [r \in Requests |-> IF r \in Connecting(b) THEN Idle
                                ELSE [req[r] EXCEPT !.failed = @ \/ r \in failing]]
  /\ UNCHANGED fritzBox
  /\ box' = Kept([box EXCEPT ![b].calls = 0,
                             ![b].state = IF Connecting(b) # {} THEN "disconnected" ELSE @])

-----------------------------------------------------------------------------
(* HeatingService *)

unusedBoxes == {b \in Boxes : b # fritzBox /\ box[b] = Unused /\ \A r \in Requests : req[r].box # b}

connect(r) ==
  /\ req[r].step = "idle"
  /\ unusedBoxes # {}
  /\ LET b == CHOOSE b \in unusedBoxes : TRUE IN
       /\ box' = [box EXCEPT ![b] = [state |-> "connecting", sid |-> 0, calls |-> 1]]
       /\ req' = [req EXCEPT ![r] = [Idle EXCEPT !.step = "connecting", !.box = b]]
  /\ UNCHANGED <<fritzBox, alive, cmd, logins, faults, left>>

\* The object the request finds, whichever it is, is dropped after the await; the
\* answer asks it for its state, and fails when it is gone.
dropBox ==
  /\ fritzBox' = None
  /\ left' = left \cup session(fritzBox)

\* The sid is forgotten before the box is asked to end the session; without one
\* there is nothing to ask.
disconnect(r) ==
  /\ req[r].step = "idle" /\ fritzBox # None
  /\ IF box[fritzBox].sid = 0
     THEN /\ dropBox
          /\ UNCHANGED req
          /\ box' = Kept([box EXCEPT ![fritzBox].state = "disconnected"])
     ELSE /\ box' = [box EXCEPT ![fritzBox].sid = 0]
          /\ req' = [req EXCEPT ![r] = [Idle EXCEPT !.step = "loggingOut", !.box = fritzBox,
                                                    !.sid = box[fritzBox].sid]]
          /\ UNCHANGED <<fritzBox, left>>
  /\ UNCHANGED <<alive, cmd, logins, faults>>

\* Sessions of S end: commands that are under way notice.
died(S) ==
  [r \in Requests |-> [i \in Commands |->
     IF cmd[r][i].step # "idle" /\ S \cap alive # {}
     THEN [cmd[r][i] EXCEPT !.deaths = IF @ = 2 THEN 2 ELSE @ + 1] ELSE cmd[r][i]]]

logoutAnswered_stays(r) ==
  /\ req[r].step = "loggingOut"
  /\ req' = [req EXCEPT ![r] = Idle]
  /\ dropBox
  /\ box' = Kept([box EXCEPT ![req[r].box].state = "disconnected"])
  /\ UNCHANGED <<alive, cmd, logins, faults>>

logoutAnswered(r) ==
  /\ req[r].step = "loggingOut"
  /\ alive' = alive \ {req[r].sid}
  /\ cmd' = died({req[r].sid})
  /\ req' = [req EXCEPT ![r] = Idle]
  /\ dropBox
  /\ box' = Kept([box EXCEPT ![req[r].box].state = "disconnected"])
  /\ UNCHANGED <<logins, faults>>

logoutFails(r) ==
  /\ req[r].step = "loggingOut" /\ faults < MaxFaults
  /\ faults' = faults + 1
  /\ req' = [req EXCEPT ![r] = Idle]
  /\ left' = left \cup ({req[r].sid} \cap alive)
  /\ UNCHANGED <<fritzBox, alive, cmd, logins>>
  /\ box' = Kept([box EXCEPT ![req[r].box].state = "disconnected"])

\* Devices, thermostats, groups and setTemperature take a single exchange; isGroup,
\* which takes one too, does not even ask whether the object is connected.  A
\* temperature query asks whether the device is a group, reads a list, for a group
\* another one, and sends commands in parallel.
query(r, stages) ==
  /\ req[r].step = "idle" /\ fritzBox # None
  /\ req' = [req EXCEPT ![r] = [Idle EXCEPT !.step = "running", !.box = fritzBox, !.stages = stages]]
  /\ cmd' = Sent(r, {1}, fritzBox)
  /\ box' = getSid(fritzBox, box)
  /\ UNCHANGED <<fritzBox, alive, logins, faults, left>>

execute(r) == query(r, 1)
getTemperature(r) == fritzBox # None /\ box[fritzBox].state = "connected" /\ query(r, 4)

\* The list of a group is one stage more than that of a single thermostat.
nextStages(stages) == IF stages = 4 THEN {3, 2} ELSE {stages - 1}

\* The commands of a stage are done: the next stage, or the answer.  After the
\* first one this.fritzBox is read again.
proceed(r) ==
  LET b == IF req[r].stages = 4 THEN fritzBox ELSE req[r].box IN
  /\ req[r].step = "running" /\ \A i \in Commands : cmd[r][i].step = "idle"
  /\ IF req[r].failed \/ req[r].stages = 1 \/ b = None
     THEN req' = [req EXCEPT ![r] = Idle] /\ UNCHANGED cmd
     ELSE \E next \in nextStages(req[r].stages) :
            /\ req' = [req EXCEPT ![r].stages = next, ![r].box = b]
            /\ cmd' = Sent(r, IF next = 1 THEN Commands ELSE {1}, b)
  /\ UNCHANGED <<fritzBox, alive, logins, faults, left>>
  /\ box' = Kept(IF req'[r].step = "idle" THEN box ELSE getSid(b, box))

-----------------------------------------------------------------------------
(* AhaClient.execute and RetryPolicy *)

IsSent(r, i) == cmd[r][i].step \in {"sent", "sentAgain"}

accepted(r, i) ==
  /\ IsSent(r, i) /\ cmd[r][i].sid \in alive
  /\ cmd' = [cmd EXCEPT ![r][i] = NoCommand]
  /\ UNCHANGED <<fritzBox, box, alive, req, logins, faults, left>>

invalidated_kept(b) == box
invalidated(b) == [box EXCEPT ![b].sid = 0]

\* 401 or 403, because the session has ended or although it is alive: the session
\* is forgotten, whichever it is by now, and the command is sent once more with a
\* new one.
rejected(r, i) ==
  LET b == req[r].box
      boxes == invalidated(b)
      live == cmd[r][i].sid \in alive
  IN
  /\ IsSent(r, i)
  /\ IF live THEN faults < MaxFaults /\ faults' = faults + 1 ELSE UNCHANGED faults
  /\ IF cmd[r][i].step = "sent"
     THEN /\ box' = getSid(b, boxes)
          /\ cmd' = [cmd EXCEPT ![r][i].step = IF boxes[b].sid # 0 THEN "sentAgain" ELSE "waitingAgain",
                                ![r][i].sid = boxes[b].sid, ![r][i].attempt = 1,
                                ![r][i].deaths = IF live /\ @ < 2 THEN @ + 1 ELSE @]
          /\ UNCHANGED req
     ELSE /\ box' = boxes
          /\ cmd' = [cmd EXCEPT ![r][i] = NoCommand]
          /\ req' = [req EXCEPT ![r].failed = TRUE]
  /\ left' = left \cup session(b)
  /\ UNCHANGED <<fritzBox, alive, logins>>

\* No answer within the time limit, or 502 to 504: again with the same sid, up
\* to MaxAttempts times.
unanswered(r, i) ==
  /\ IsSent(r, i) /\ faults < MaxFaults
  /\ faults' = faults + 1
  /\ IF cmd[r][i].attempt < MaxAttempts
     THEN cmd' = [cmd EXCEPT ![r][i].attempt = @ + 1] /\ UNCHANGED req
     ELSE cmd' = [cmd EXCEPT ![r][i] = NoCommand] /\ req' = [req EXCEPT ![r].failed = TRUE]
  /\ UNCHANGED <<fritzBox, box, alive, logins, left>>

\* The box ends sessions after some time.
sessionExpires(s) ==
  /\ s \in alive
  /\ alive' = alive \ {s}
  /\ left' = left \ {s}
  /\ cmd' = died({s})
  /\ UNCHANGED <<fritzBox, box, req, logins, faults>>

-----------------------------------------------------------------------------
Answer(r) ==
  \/ logoutAnswered(r) \/ logoutFails(r) \/ proceed(r)
  \/ \E i \in Commands : accepted(r, i) \/ rejected(r, i) \/ unanswered(r, i)
Login(b) == loginSucceeds(b) \/ loginFails(b)

\* The endpoints of HeatingController.
Endpoint(r) == connect(r) \/ disconnect(r) \/ execute(r) \/ getTemperature(r)

Next ==
  \/ \E r \in Requests : Endpoint(r) \/ Answer(r)
  \/ \E b \in Boxes : Login(b)
  \/ \E s \in Sids : sessionExpires(s)

Spec == Init /\ [][Next]_vars

-----------------------------------------------------------------------------
BoxRecords == [state : {"disconnected", "connecting", "connected"}, sid : Sids \cup {0},
               calls : {0, 1}]
RequestRecords == [step : {"idle", "connecting", "loggingOut", "running"},
                   box : Boxes \cup {None}, sid : Sids \cup {0}, stages : 0..4,
                   failed : BOOLEAN]
CommandRecords == [step : {"idle", "waiting", "sent", "waitingAgain", "sentAgain"},
                   sid : Sids \cup {0}, attempt : 1..MaxAttempts, deaths : 0..2]

TypeOK ==
  /\ fritzBox \in Boxes \cup {None}
  /\ box \in [Boxes -> BoxRecords]
  /\ alive \subseteq Sids
  /\ req \in [Requests -> RequestRecords]
  /\ cmd \in [Requests -> [Commands -> CommandRecords]]
  /\ logins \in 0..MaxLogins /\ faults \in 0..MaxFaults
  /\ left \subseteq Sids

\* Sessions are given back: one that exists belongs to the current object or is
\* being logged out.  Left behind are, one for one, the session of an object that a
\* connect replaces or a disconnect drops that asked for another session to end, of
\* a login on an object that is no longer the current one, of a logout that failed,
\* of a login reply that was lost, and a session alive when its sid was discarded.
SessionsAreGivenBack ==
  \A s \in alive \ left :
    \/ fritzBox # None /\ box[fritzBox].sid = s
    \/ \E r \in Requests : req[r].step = "loggingOut" /\ req[r].sid = s

\* One session that ends does not make a command fail, however many run in
\* parallel: only a second one that ends meanwhile does.
OneExpiryIsSurvived ==
  [][\A r \in Requests : req'[r].failed /\ ~req[r].failed /\ faults' = faults /\ logins < MaxLogins =>
       \E i \in Commands : cmd[r][i].deaths = 2 /\ cmd'[r][i].step = "idle"]_vars

\* A command or connect that waits for a session shares a login that is under way,
\* also after logins failed, sids were discarded and objects were replaced: nobody
\* waits for an answer that will not come.
NobodyWaitsInVain ==
  \A r \in Requests :
    /\ req[r].step = "connecting" => box[req[r].box].calls # 0
    /\ \A i \in Commands : cmd[r][i].step \in {"waiting", "waitingAgain"}
                            => box[req[r].box].calls # 0
=============================================================================
