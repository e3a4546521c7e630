---------------------- MODULE DiagnosticConnection_proofs ----------------------
(***************************************************************************)
(* Theorems about DiagnosticConnection, for any requests, objects, parallel *)
(* commands, attempts, logins and failures.                                *)
(***************************************************************************)
EXTENDS DiagnosticConnection, TLAPS

USE BoundsAssumption, NoneAssumption

(* A request that does something has an object, and only one that runs has  *)
(* commands under way.  Who waits for a session shares a login.             *)
Shaped(r) ==
  /\ req[r].step # "idle" => req[r].box \in Boxes
  /\ req[r].step = "running" => req[r].stages # 0
  /\ req[r].step = "connecting" => box[req[r].box].calls # 0
  /\ \A i \in Commands :
       /\ cmd[r][i].step # "idle" => req[r].step = "running"
       /\ cmd[r][i].step \in {"waiting", "waitingAgain"} => box[req[r].box].calls # 0

(* A command that is rejected has seen its session end or discarded, and a   *)
(* second one when it is rejected again.                                    *)
Deaths(c, sids) ==
  /\ c.step = "sent" => c.sid \in sids \/ c.deaths # 0
  /\ c.step = "waitingAgain" => c.deaths # 0
  /\ c.step = "sentAgain" => c.deaths # 0 /\ (c.sid \in sids \/ c.deaths = 2)

(* An object logs in when it has no sid.                                   *)
Asks(x) == x.calls # 0 => x.sid = 0

Typed ==
  /\ TypeOK
  /\ \A r \in Requests : Shaped(r)
  /\ \A r \in Requests, i \in Commands : Deaths(cmd[r][i], alive)
  /\ \A b \in Boxes : Asks(box[b])

(* The records the steps start from are well typed, and so are the objects   *)
(* and commands the helpers of the model return.                            *)
LEMMA RecordTypes ==
  /\ Idle \in RequestRecords /\ Idle.step = "idle" /\ ~Idle.failed
  /\ NoCommand \in CommandRecords /\ NoCommand.step = "idle"
  /\ Unused \in BoxRecords /\ Unused.sid = 0 /\ Unused.calls = 0
BY DEF Idle, RequestRecords, NoCommand, CommandRecords, Unused, BoxRecords

LEMMA GetSid ==
  ASSUME NEW boxes \in [Boxes -> BoxRecords], NEW b \in Boxes, NEW B, B = getSid(b, boxes),
         \A c \in Boxes : Asks(boxes[c])
  PROVE  /\ B \in [Boxes -> BoxRecords]
         /\ \A c \in Boxes : /\ Asks(B[c]) /\ B[c].sid = boxes[c].sid
                             /\ boxes[c].calls # 0 => B[c].calls # 0
         /\ B[b].sid = 0 => B[b].calls # 0
<1>1. CASE boxes[b].sid # 0 \/ boxes[b].calls # 0
  BY <1>1 DEF getSid
<1>2. CASE boxes[b].sid = 0 /\ boxes[b].calls = 0
  <2>1. PICK x : x = [boxes[b] EXCEPT !.calls = 1]
    OBVIOUS
  <2>2. x \in BoxRecords /\ x.sid = boxes[b].sid /\ x.calls = 1
    BY <2>1 DEF BoxRecords
  <2>3. B = [boxes EXCEPT ![b] = x]
    BY <1>2, <2>1 DEF getSid
  <2> QED
    BY <1>2, <2>2, <2>3 DEF Asks
<1> QED
  BY <1>1, <1>2

LEMMA KeptBoxes ==
  ASSUME NEW boxes \in [Boxes -> BoxRecords], NEW B, B = Kept(boxes),
         \A c \in Boxes : Asks(boxes[c])
  PROVE  /\ B \in [Boxes -> BoxRecords]
         /\ \A c \in Boxes : /\ Asks(B[c])
                             /\ boxes[c].calls # 0 => B[c].calls # 0
         /\ fritzBox' \in Boxes => B[fritzBox'] = boxes[fritzBox']
BY RecordTypes DEF Kept, Asks

LEMMA SentCommands ==
  ASSUME Typed, NEW r \in Requests, NEW is, NEW b \in Boxes,
         NEW C, C = Sent(r, is, b), \A i \in Commands : cmd[r][i].step = "idle"
  PROVE  /\ C \in [Requests -> [Commands -> CommandRecords]]
         /\ \A q \in Requests \ {r} : C[q] = cmd[q]
         /\ \A i \in Commands : /\ Deaths(C[r][i], alive)
                                /\ C[r][i].step \in {"waiting", "waitingAgain"} => box[b].sid = 0
<1> DEFINE new == [step |-> IF box[b].sid # 0 THEN "sent" ELSE "waiting", sid |-> box[b].sid,
                   attempt |-> 1, deaths |-> IF box[b].sid \in alive \cup {0} THEN 0 ELSE 1]
           row == [i \in Commands |-> IF i \notin is THEN cmd[r][i] ELSE new]
<1>1. cmd \in [Requests -> [Commands -> CommandRecords]] /\ box[b].sid \in Sids \cup {0}
  BY DEF Typed, TypeOK, BoxRecords
<1>2. C = [cmd EXCEPT ![r] = row]
  BY <1>1 DEF Sent
<1>3. new \in CommandRecords
  BY <1>1 DEF CommandRecords
<1>4. /\ new.step \in {"waiting", "sent"} /\ (new.step = "waiting" => box[b].sid = 0)
      /\ new.sid = box[b].sid
      /\ new.step = "sent" => new.sid \in alive \/ new.deaths # 0
  BY <1>1
<1> HIDE DEF new
<1>5. row \in [Commands -> CommandRecords]
  BY <1>1, <1>3
<1>6. C[r] = row /\ C \in [Requests -> [Commands -> CommandRecords]]
      /\ \A q \in Requests \ {r} : C[q] = cmd[q]
  BY <1>1, <1>2, <1>5
<1>7. ASSUME NEW i \in Commands
      PROVE  /\ Deaths(C[r][i], alive)
             /\ C[r][i].step \in {"waiting", "waitingAgain"} => box[b].sid = 0
  <2>1. C[r][i] = IF i \notin is THEN cmd[r][i] ELSE new
    BY <1>6
  <2>2. cmd[r][i].step = "idle"
    OBVIOUS
  <2> QED
    BY <1>4, <2>1, <2>2 DEF Deaths
<1> QED
  BY <1>6, <1>7

Written(r, i, x) == [cmd EXCEPT ![r][i] = x]
Failed(r) == [req EXCEPT ![r].failed = TRUE]

LEMMA CommandWritten ==
  ASSUME Typed, NEW r \in Requests, NEW i \in Commands, NEW x \in CommandRecords,
         NEW C, C = Written(r, i, x)
  PROVE  /\ C \in [Requests -> [Commands -> CommandRecords]] /\ C[r][i] = x
         /\ \A q \in Requests, j \in Commands : q # r \/ j # i => C[q][j] = cmd[q][j]
<1>1. cmd \in [Requests -> [Commands -> CommandRecords]]
  BY DEF Typed, TypeOK
<1>2. PICK row : row = [cmd[r] EXCEPT ![i] = x]
  OBVIOUS
<1>3. /\ row \in [Commands -> CommandRecords] /\ row[i] = x
      /\ \A j \in Commands : j # i => row[j] = cmd[r][j]
  BY <1>1, <1>2
<1>4. C = [cmd EXCEPT ![r] = row]
  BY <1>1, <1>2 DEF Written
<1> QED
  BY <1>1, <1>3, <1>4

LEMMA RequestFails ==
  ASSUME Typed, NEW r \in Requests, NEW x, x = [req[r] EXCEPT !.failed = TRUE]
  PROVE  /\ x \in RequestRecords /\ x.step = req[r].step /\ x.box = req[r].box
         /\ x.stages = req[r].stages /\ x.sid = req[r].sid /\ x.failed
BY DEF Typed, TypeOK, RequestRecords

(* The steps of the endpoints.                                             *)
LEMMA ConnectTyped ==
  ASSUME Typed, NEW r \in Requests, connect(r)
  PROVE  Typed'
<1>1. PICK b \in unusedBoxes :
         /\ box' = [box EXCEPT ![b] = [state |-> "connecting", sid |-> 0, calls |-> 1]]
         /\ req' = [req EXCEPT ![r] = [Idle EXCEPT !.step = "connecting", !.box = b]]
  BY DEF connect
<1>2. b \in Boxes /\ \A q \in Requests : req[q].box # b
  BY DEF unusedBoxes
<1>3. PICK x : x = [Idle EXCEPT !.step = "connecting", !.box = b]
  OBVIOUS
<1>4. x \in RequestRecords /\ x.step = "connecting" /\ x.box = b /\ ~x.failed
  <2>1. Idle \in RequestRecords /\ ~Idle.failed
    BY RecordTypes
  <2>2. x \in RequestRecords /\ x.step = "connecting" /\ x.box = b /\ x.failed = Idle.failed
    BY <1>2, <1>3, <2>1 DEF RequestRecords
  <2> QED
    BY <2>1, <2>2
<1>5. PICK y : y = [state |-> "connecting", sid |-> 0, calls |-> 1]
  OBVIOUS
<1>6. y \in BoxRecords /\ y.sid = 0 /\ y.calls = 1
  BY <1>5 DEF BoxRecords
<1>7. /\ box' \in [Boxes -> BoxRecords] /\ box'[b] = y
      /\ \A c \in Boxes : c # b => box'[c] = box[c]
  BY <1>1, <1>2, <1>5, <1>6 DEF Typed, TypeOK
<1>8. /\ req' \in [Requests -> RequestRecords] /\ req'[r] = x
      /\ \A q \in Requests \ {r} : req'[q] = req[q]
  BY <1>1, <1>3, <1>4 DEF Typed, TypeOK
<1>9. req[r].step = "idle" /\ UNCHANGED <<fritzBox, alive, cmd, logins, faults, left>>
  BY DEF connect
<1>10. TypeOK'
  BY <1>7, <1>8, <1>9 DEF Typed, TypeOK
<1>11. ASSUME NEW q \in Requests PROVE Shaped(q)'
  <2>1. CASE q = r
    BY <1>2, <1>4, <1>6, <1>7, <1>8, <1>9, <2>1 DEF Typed, Shaped
  <2>2. CASE q # r
    BY <1>2, <1>7, <1>8, <1>9, <2>2 DEF Typed, Shaped
  <2> QED
    BY <2>1, <2>2
<1>12. \A c \in Boxes : Asks(box'[c])
  BY <1>6, <1>7 DEF Typed, Asks
<1> QED
  BY <1>9, <1>10, <1>11, <1>12 DEF Typed

LEMMA DisconnectTyped ==
  ASSUME Typed, NEW r \in Requests, disconnect(r)
  PROVE  /\ Typed'
         /\ \/ box[fritzBox].sid = 0 /\ dropBox /\ req' = req
            \/ /\ fritzBox' = fritzBox /\ left' = left
               /\ req'[r].step = "loggingOut" /\ req'[r].sid = box[fritzBox].sid /\ ~req'[r].failed
               /\ req[r].step = "idle" /\ \A q \in Requests \ {r} : req'[q] = req[q]
<1>1. /\ req[r].step = "idle" /\ fritzBox \in Boxes
      /\ UNCHANGED <<alive, cmd, logins, faults>>
  BY DEF disconnect, Typed, TypeOK
<1>2. box \in [Boxes -> BoxRecords] /\ req \in [Requests -> RequestRecords]
      /\ box[fritzBox] \in BoxRecords
  BY <1>1 DEF Typed, TypeOK
<1>3. CASE box[fritzBox].sid = 0
  <2>1. dropBox /\ req' = req
    BY <1>3 DEF disconnect
  <2>2. PICK x : x = [box[fritzBox] EXCEPT !.state = "disconnected"]
    OBVIOUS
  <2>3. x \in BoxRecords /\ x.sid = box[fritzBox].sid /\ x.calls = box[fritzBox].calls
    BY <1>2, <2>2 DEF BoxRecords
  <2>4. PICK boxes : boxes = [box EXCEPT ![fritzBox] = x]
    OBVIOUS
  <2>5. box' = Kept(boxes)
    BY <1>3, <2>2, <2>4 DEF disconnect
  <2>6. /\ boxes \in [Boxes -> BoxRecords]
        /\ \A c \in Boxes : Asks(boxes[c]) /\ boxes[c].calls = box[c].calls
    BY <1>1, <1>2, <2>3, <2>4 DEF Typed, Asks
  <2>7. /\ box' \in [Boxes -> BoxRecords]
        /\ \A c \in Boxes : Asks(box'[c]) /\ (boxes[c].calls # 0 => box'[c].calls # 0)
    BY <2>5, <2>6, KeptBoxes
  <2>8. TypeOK'
    <3>1. left \subseteq Sids /\ session(fritzBox) \subseteq Sids
      BY DEF Typed, TypeOK, session
    <3>2. left' \subseteq Sids /\ fritzBox' = None
      BY <2>1, <3>1 DEF dropBox
    <3> QED
      BY <1>1, <2>1, <2>7, <3>2 DEF Typed, TypeOK
  <2>9. \A q \in Requests : Shaped(q)'
    BY <1>1, <2>1, <2>6, <2>7 DEF Typed, Shaped
  <2> QED
    BY <1>1, <1>3, <2>1, <2>7, <2>8, <2>9 DEF Typed
<1>4. CASE box[fritzBox].sid # 0
  <2>1. PICK x : x = [box[fritzBox] EXCEPT !.sid = 0]
    OBVIOUS
  <2>2. x \in BoxRecords /\ x.sid = 0 /\ x.calls = box[fritzBox].calls
    BY <1>2, <2>1 DEF BoxRecords
  <2>3. box' = [box EXCEPT ![fritzBox] = x]
    BY <1>4, <2>1 DEF disconnect
  <2>4. /\ box' \in [Boxes -> BoxRecords]
        /\ \A c \in Boxes : Asks(box'[c]) /\ box'[c].calls = box[c].calls
    BY <1>1, <1>2, <2>2, <2>3 DEF Typed, Asks
  <2>5. PICK y : y = [Idle EXCEPT !.step = "loggingOut", !.box = fritzBox, !.sid = box[fritzBox].sid]
    OBVIOUS
  <2>6. /\ y \in RequestRecords /\ y.step = "loggingOut" /\ y.box = fritzBox
        /\ y.sid = box[fritzBox].sid /\ ~y.failed
    <3>1. box[fritzBox].sid \in Sids \cup {0}
      BY <1>2 DEF BoxRecords
    <3>2. Idle \in RequestRecords /\ ~Idle.failed
      BY RecordTypes
    <3>3. /\ y \in RequestRecords /\ y.step = "loggingOut" /\ y.box = fritzBox
          /\ y.sid = box[fritzBox].sid /\ y.failed = Idle.failed
      BY <1>1, <2>5, <3>1, <3>2 DEF RequestRecords
    <3> QED
      BY <3>2, <3>3
  <2>7. req' = [req EXCEPT ![r] = y] /\ UNCHANGED <<fritzBox, left>>
    BY <1>4, <2>5 DEF disconnect
  <2>8. /\ req' \in [Requests -> RequestRecords] /\ req'[r] = y
        /\ \A q \in Requests \ {r} : req'[q] = req[q]
    BY <1>2, <2>6, <2>7
  <2>9. TypeOK'
    BY <1>1, <2>4, <2>7, <2>8 DEF Typed, TypeOK
  <2>10. ASSUME NEW q \in Requests PROVE Shaped(q)'
    <3>1. CASE q = r
      BY <1>1, <2>6, <2>8, <3>1 DEF Typed, Shaped
    <3>2. CASE q # r
      BY <1>1, <2>4, <2>8, <3>2 DEF Typed, Shaped
    <3> QED
      BY <3>1, <3>2
  <2> QED
    BY <1>1, <2>4, <2>6, <2>7, <2>8, <2>9, <2>10 DEF Typed
<1> QED
  BY <1>3, <1>4

LEMMA QueryTyped ==
  ASSUME Typed, NEW r \in Requests, NEW stages \in {1, 4}, query(r, stages)
  PROVE  /\ Typed' /\ \A q \in Requests \ {r} : req'[q] = req[q]
         /\ req[r].step = "idle" /\ req'[r].step = "running" /\ ~req'[r].failed
         /\ \A c \in Boxes : box'[c].sid = box[c].sid
         /\ UNCHANGED <<fritzBox, alive, left>>
<1>1. /\ req[r].step = "idle" /\ fritzBox \in Boxes
      /\ cmd' = Sent(r, {1}, fritzBox) /\ box' = getSid(fritzBox, box)
      /\ UNCHANGED <<fritzBox, alive, logins, faults, left>>
  BY DEF query, Typed, TypeOK
<1>2. PICK x : x = [Idle EXCEPT !.step = "running", !.box = fritzBox, !.stages = stages]
  OBVIOUS
<1>3. x \in RequestRecords /\ x.step = "running" /\ x.box = fritzBox /\ x.stages = stages /\ ~x.failed
  <2>1. Idle \in RequestRecords /\ ~Idle.failed
    BY RecordTypes
  <2>2. /\ x \in RequestRecords /\ x.step = "running" /\ x.box = fritzBox /\ x.stages = stages
        /\ x.failed = Idle.failed
    <3>1. stages \in 0..4
      OBVIOUS
    <3> QED
      BY <1>1, <1>2, <2>1, <3>1 DEF RequestRecords
  <2> QED
    BY <2>1, <2>2
<1>4. /\ req' \in [Requests -> RequestRecords] /\ req'[r] = x
      /\ \A q \in Requests \ {r} : req'[q] = req[q]
  BY <1>2, <1>3 DEF query, Typed, TypeOK
<1>5. /\ box' \in [Boxes -> BoxRecords]
      /\ \A c \in Boxes : /\ Asks(box'[c]) /\ box'[c].sid = box[c].sid
                          /\ box[c].calls # 0 => box'[c].calls # 0
      /\ box[fritzBox].sid = 0 => box'[fritzBox].calls # 0
  <2>1. box \in [Boxes -> BoxRecords] /\ \A c \in Boxes : Asks(box[c])
    BY DEF Typed, TypeOK
  <2> QED
    BY <1>1, <2>1, GetSid
<1>6. /\ cmd' \in [Requests -> [Commands -> CommandRecords]]
      /\ \A q \in Requests \ {r} : cmd'[q] = cmd[q]
      /\ \A i \in Commands : /\ Deaths(cmd'[r][i], alive)
                             /\ cmd'[r][i].step \in {"waiting", "waitingAgain"} => box[fritzBox].sid = 0
  <2>1. \A i \in Commands : cmd[r][i].step = "idle"
    BY <1>1 DEF Typed, Shaped
  <2>3. PICK b \in Boxes : b = fritzBox
    BY <1>1
  <2>4. PICK is : is = {1}
    OBVIOUS
  <2>5. PICK C : C = Sent(r, is, b)
    OBVIOUS
  <2>6. cmd' = C
    BY <1>1, <2>3, <2>4, <2>5
  <2>7. /\ C \in [Requests -> [Commands -> CommandRecords]]
        /\ \A q \in Requests \ {r} : C[q] = cmd[q]
        /\ \A i \in Commands : /\ Deaths(C[r][i], alive)
                               /\ C[r][i].step \in {"waiting", "waitingAgain"} => box[b].sid = 0
    BY <2>1, <2>5, SentCommands
  <2> QED
    BY <2>3, <2>6, <2>7
<1>7. TypeOK'
  BY <1>1, <1>4, <1>5, <1>6 DEF Typed, TypeOK
<1>8. ASSUME NEW q \in Requests PROVE Shaped(q)'
  <2>1. CASE q = r
    BY <1>1, <1>3, <1>4, <1>5, <1>6, <2>1 DEF Shaped
  <2>2. CASE q # r
    BY <1>4, <1>5, <1>6, <2>2 DEF Typed, Shaped
  <2> QED
    BY <2>1, <2>2
<1>9. \A q \in Requests, i \in Commands : Deaths(cmd'[q][i], alive')
  BY <1>1, <1>6 DEF Typed
<1> QED
  BY <1>1, <1>3, <1>4, <1>5, <1>7, <1>8, <1>9 DEF Typed

(* What every step does besides: sessions are given back, and who fails has  *)
(* seen two sessions end.                                                   *)
Survived ==
  \A r \in Requests : req'[r].failed /\ ~req[r].failed /\ faults' = faults /\ logins < MaxLogins =>
    \E i \in Commands : cmd[r][i].deaths = 2 /\ cmd'[r][i].step = "idle"

(* A step that ends no session, nor begins one, and leaves the current object *)
(* and the logouts alone.                                                   *)
LEMMA SessionsStay ==
  ASSUME Typed, SessionsAreGivenBack, alive' \subseteq alive,
         \A s \in alive' : s \in left => s \in left',
         fritzBox # None /\ box[fritzBox].sid \in alive /\ box[fritzBox].sid \notin left'
           => fritzBox' = fritzBox /\ box'[fritzBox].sid = box[fritzBox].sid,
         \A q \in Requests : req[q].step = "loggingOut" => req'[q] = req[q]
  PROVE  SessionsAreGivenBack'
<1> SUFFICES ASSUME NEW s \in alive', s \notin left'
             PROVE  \/ fritzBox' # None /\ box'[fritzBox'].sid = s
                    \/ \E r \in Requests : req'[r].step = "loggingOut" /\ req'[r].sid = s
  BY DEF SessionsAreGivenBack
<1>1. \/ fritzBox # None /\ box[fritzBox].sid = s
      \/ \E r \in Requests : req[r].step = "loggingOut" /\ req[r].sid = s
  BY DEF SessionsAreGivenBack
<1>2. CASE fritzBox # None /\ box[fritzBox].sid = s
  BY <1>2
<1>3. CASE \E r \in Requests : req[r].step = "loggingOut" /\ req[r].sid = s
  BY <1>3
<1> QED
  BY <1>1, <1>2, <1>3

(* The box answers a login, or does not.                                   *)
LEMMA LoginSucceeds ==
  ASSUME Typed, NEW b \in Boxes, loginSucceeds(b)
  PROVE  /\ Typed' /\ Survived
         /\ SessionsAreGivenBack => SessionsAreGivenBack'
<1>1. PICK lost \in 0..(MaxAttempts - 1) :
        /\ box[b].calls # 0 /\ logins + lost + 1 \in Sids /\ faults + lost <= MaxFaults
        /\ logins' = logins + lost + 1
        /\ faults' = faults + lost
        /\ alive' = alive \cup lostLogins(lost) \cup {logins + lost + 1}
        /\ cmd' = [q \in Requests |-> [i \in Commands |->
                     IF Waiting(q, i, b)
                     THEN [cmd[q][i] EXCEPT !.sid = logins + lost + 1, !.attempt = 1,
                             !.step = IF @ = "waiting" THEN "sent" ELSE "sentAgain"]
                     ELSE cmd[q][i]]]
        /\ IF Connecting(b) # {}
           THEN fritzBox' = b /\ left' = left \cup lostLogins(lost) \cup session(fritzBox)
           ELSE /\ left' = left \cup lostLogins(lost)
                            \cup (IF fritzBox = b THEN {} ELSE {logins + lost + 1})
                /\ UNCHANGED fritzBox
        /\ box' = Kept([box EXCEPT ![b].sid = logins + lost + 1, ![b].calls = @ - 1,
                             ![b].state = IF Connecting(b) # {} THEN "connected" ELSE @])
  BY Zenon DEF loginSucceeds
<1>0. PICK n : n = logins + lost + 1
  OBVIOUS
<1>2. /\ logins \in Nat /\ box[b].calls = 1 /\ box[b].sid = 0 /\ n \in Sids /\ logins' = n
      /\ n \in 0..MaxLogins /\ logins' \in 0..MaxLogins /\ faults' \in 0..MaxFaults
      /\ lostLogins(lost) \subseteq Sids
      /\ alive' = alive \cup lostLogins(lost) \cup {n}
  <2>1. logins \in 0..MaxLogins /\ faults \in 0..MaxFaults /\ box[b] \in BoxRecords /\ Asks(box[b])
    BY DEF Typed, TypeOK
  <2>2. box[b].calls \in {0, 1}
    BY <2>1 DEF BoxRecords
  <2>0. /\ lost \in 0..(MaxAttempts - 1) /\ logins + lost + 1 \in Sids
        /\ faults + lost <= MaxFaults /\ logins' = logins + lost + 1
        /\ faults' = faults + lost
    BY <1>1, Zenon
  <2>3. /\ lost \in Nat /\ logins \in Nat /\ MaxLogins \in Nat /\ faults \in Nat
        /\ MaxFaults \in Nat /\ n \in Sids /\ n = logins + lost + 1
    BY <1>0, <2>0, <2>1, BoundsAssumption
  <2>4. n \in 1..MaxLogins
    BY <2>3 DEF Sids
  <2>5. lostLogins(lost) \subseteq Sids
    BY <2>3, <2>4 DEF Sids, lostLogins
  <2>6. logins' = n /\ logins' \in 0..MaxLogins /\ faults' \in 0..MaxFaults
    BY <2>0, <2>3, <2>4
  <2>7. box[b].calls = 1 /\ box[b].sid = 0
    BY <1>1, <2>1, <2>2 DEF Asks
  <2>8. alive' = alive \cup lostLogins(lost) \cup {n}
    BY <1>0, <1>1
  <2> QED
    BY <2>3, <2>4, <2>5, <2>6, <2>7, <2>8
<1>3. PICK x : x = [box[b] EXCEPT !.sid = n, !.calls = @ - 1,
                                  !.state = IF Connecting(b) # {} THEN "connected" ELSE @]
  OBVIOUS
<1>4. x \in BoxRecords /\ x.sid = n /\ x.calls = 0
  <2>1. box[b] \in BoxRecords
    BY DEF Typed, TypeOK
  <2>2. PICK st : st = IF Connecting(b) # {} THEN "connected" ELSE box[b].state
    OBVIOUS
  <2>3. st \in {"disconnected", "connecting", "connected"}
    BY <2>1, <2>2 DEF BoxRecords
  <2>4. x = [box[b] EXCEPT !.sid = n, !.calls = 1 - 1, !.state = st]
    BY <1>2, <1>3, <2>1, <2>2 DEF BoxRecords
  <2>5. 1 - 1 = 0 /\ n \in Sids \cup {0}
    BY <1>2
  <2> QED
    BY <2>1, <2>3, <2>4, <2>5 DEF BoxRecords
<1>5. PICK boxes : boxes = [box EXCEPT ![b] = x]
  OBVIOUS
<1>6. box' = Kept(boxes)
  BY <1>0, <1>1, <1>3, <1>5
<1>7. /\ boxes \in [Boxes -> BoxRecords] /\ boxes[b] = x
      /\ \A c \in Boxes : Asks(boxes[c]) /\ (c # b => boxes[c] = box[c])
  BY <1>4, <1>5 DEF Typed, TypeOK, Asks
<1>8. /\ box' \in [Boxes -> BoxRecords]
      /\ \A c \in Boxes : Asks(box'[c]) /\ (boxes[c].calls # 0 => box'[c].calls # 0)
      /\ fritzBox' \in Boxes => box'[fritzBox'] = boxes[fritzBox']
  BY <1>6, <1>7, KeptBoxes
<1>9. /\ req' \in [Requests -> RequestRecords]
      /\ \A q \in Requests : \/ q \in Connecting(b) /\ req'[q] = Idle
                             \/ q \notin Connecting(b) /\ req'[q] = req[q]
  <2>1. req \in [Requests -> RequestRecords] /\ Idle \in RequestRecords
    BY RecordTypes DEF Typed, TypeOK
  <2>2. req' = [q \in Requests |-> IF q \in Connecting(b) THEN Idle ELSE req[q]]
    BY DEF loginSucceeds
  <2> QED
    BY <2>1, <2>2
<1>10. /\ cmd' \in [Requests -> [Commands -> CommandRecords]]
       /\ \A q \in Requests, i \in Commands :
            \/ /\ Waiting(q, i, b) /\ cmd'[q][i].sid = n /\ cmd'[q][i].deaths = cmd[q][i].deaths
               /\ cmd'[q][i].step = IF cmd[q][i].step = "waiting" THEN "sent" ELSE "sentAgain"
            \/ ~Waiting(q, i, b) /\ cmd'[q][i] = cmd[q][i]
  <2>1. cmd \in [Requests -> [Commands -> CommandRecords]]
    BY DEF Typed, TypeOK
  <2>2. cmd' = [q \in Requests |-> [i \in Commands |->
               IF Waiting(q, i, b)
               THEN [cmd[q][i] EXCEPT !.sid = n, !.attempt = 1,
                       !.step = IF @ = "waiting" THEN "sent" ELSE "sentAgain"]
               ELSE cmd[q][i]]]
    BY <1>0, <1>1
  <2>3. ASSUME NEW q \in Requests, NEW i \in Commands
        PROVE  /\ cmd'[q][i] \in CommandRecords
               /\ \/ /\ Waiting(q, i, b) /\ cmd'[q][i].sid = n /\ cmd'[q][i].deaths = cmd[q][i].deaths
                     /\ cmd'[q][i].step = IF cmd[q][i].step = "waiting" THEN "sent" ELSE "sentAgain"
                  \/ ~Waiting(q, i, b) /\ cmd'[q][i] = cmd[q][i]
    <3>1. cmd[q][i] \in CommandRecords
      BY <2>1
    <3>2. CASE ~Waiting(q, i, b)
      BY <2>2, <3>1, <3>2
    <3>3. CASE Waiting(q, i, b)
      <4>1. PICK y : y = [cmd[q][i] EXCEPT !.sid = n, !.attempt = 1,
                            !.step = IF @ = "waiting" THEN "sent" ELSE "sentAgain"]
        OBVIOUS
      <4>2. cmd'[q][i] = y
        BY <2>2, <3>3, <4>1
      <4>3. /\ y \in CommandRecords /\ y.sid = n /\ y.deaths = cmd[q][i].deaths
            /\ y.step = IF cmd[q][i].step = "waiting" THEN "sent" ELSE "sentAgain"
        <5>1. n \in Sids \cup {0} /\ 1 \in 1..MaxAttempts
          BY <1>2
        <5>2. PICK st : st = IF cmd[q][i].step = "waiting" THEN "sent" ELSE "sentAgain"
          OBVIOUS
        <5>3. y = [cmd[q][i] EXCEPT !.sid = n, !.attempt = 1, !.step = st]
          BY <3>1, <4>1, <5>2 DEF CommandRecords
        <5>4. st \in {"sent", "sentAgain"}
          BY <5>2
        <5>5. y \in CommandRecords /\ y.sid = n /\ y.deaths = cmd[q][i].deaths /\ y.step = st
          BY <3>1, <5>1, <5>3, <5>4 DEF CommandRecords
        <5> QED
          BY <5>2, <5>5
      <4> QED
        BY <3>3, <4>2, <4>3
    <3> QED
      BY <3>2, <3>3
  <2>4. \A q \in Requests : cmd'[q] \in [Commands -> CommandRecords]
    BY <2>2, <2>3
  <2> QED
    BY <2>2, <2>3, <2>4
<1>11. fritzBox' \in Boxes \cup {None} /\ left' \subseteq Sids
  <2>1. session(fritzBox) \subseteq Sids
    BY DEF session, Typed, TypeOK
  <2>2. left \subseteq Sids /\ fritzBox \in Boxes \cup {None}
    BY DEF Typed, TypeOK
  <2> QED
    BY <1>0, <1>1, <1>2, <2>1, <2>2
<1>12. TypeOK'
  BY <1>2, <1>8, <1>9, <1>10, <1>11 DEF Typed, TypeOK
<1>13. ASSUME NEW q \in Requests PROVE Shaped(q)'
  <2>1. Shaped(q)
    BY DEF Typed
  <2>2. CASE q \in Connecting(b)
    <3>1. req[q].step = "connecting" /\ req'[q].step = "idle"
      BY <1>9, <2>2, RecordTypes DEF Connecting
    <3>2. \A i \in Commands : cmd[q][i].step = "idle" /\ cmd'[q][i].step = "idle"
      BY <1>10, <2>1, <3>1 DEF Shaped, Waiting
    <3> QED
      BY <3>1, <3>2 DEF Shaped
  <2>3. CASE q \notin Connecting(b)
    <3>1. req'[q] = req[q]
      BY <1>9, <2>3
    <3>2. req[q].step = "connecting" => box'[req[q].box].calls # 0
      BY <1>7, <1>8, <2>1, <2>3 DEF Connecting, Shaped
    <3>3. ASSUME NEW i \in Commands
          PROVE  /\ cmd'[q][i].step # "idle" => req[q].step = "running"
                 /\ cmd'[q][i].step \in {"waiting", "waitingAgain"} => box'[req[q].box].calls # 0
      <4>1. CASE Waiting(q, i, b)
        BY <1>10, <2>1, <4>1 DEF Waiting, Shaped
      <4>2. CASE ~Waiting(q, i, b)
        BY <1>7, <1>8, <1>10, <2>1, <4>2 DEF Waiting, Shaped
      <4> QED
        BY <4>1, <4>2
    <3> QED
      BY <2>1, <3>1, <3>2, <3>3 DEF Shaped
  <2> QED
    BY <2>2, <2>3
<1>14. ASSUME NEW q \in Requests, NEW i \in Commands PROVE Deaths(cmd'[q][i], alive')
  <2>1. Deaths(cmd[q][i], alive)
    BY DEF Typed
  <2> QED
    BY <1>2, <1>10, <2>1 DEF Deaths, Waiting
<1>15. Typed'
  BY <1>8, <1>12, <1>13, <1>14 DEF Typed
<1>16. Survived
  BY <1>9, RecordTypes DEF Survived
<1>17. ASSUME SessionsAreGivenBack PROVE SessionsAreGivenBack'
  <2> SUFFICES ASSUME NEW s \in alive', s \notin left'
               PROVE  \/ fritzBox' # None /\ box'[fritzBox'].sid = s
                      \/ \E r \in Requests : req'[r].step = "loggingOut" /\ req'[r].sid = s
    BY DEF SessionsAreGivenBack
  <2>1. \/ s = n /\ fritzBox' = b
        \/ s \in alive /\ s \notin left /\ s \notin lostLogins(lost)
    BY <1>0, <1>1, <1>2
  <2>2. CASE s = n /\ fritzBox' = b
    BY <1>4, <1>7, <1>8, <2>2
  <2>3. CASE s \in alive /\ s \notin left
    <3>1. s # 0
      BY <2>3 DEF Typed, TypeOK, Sids
    <3>2. CASE fritzBox # None /\ box[fritzBox].sid = s
      <4>1. s \in session(fritzBox) /\ fritzBox # b /\ fritzBox \in Boxes
        BY <1>2, <2>3, <3>1, <3>2 DEF session, Typed, TypeOK
      <4>2. fritzBox' = fritzBox
        BY <1>1, <4>1
      <4> QED
        BY <1>7, <1>8, <3>2, <4>1, <4>2
    <3>3. CASE \E q \in Requests : req[q].step = "loggingOut" /\ req[q].sid = s
      <4>1. PICK q \in Requests : req[q].step = "loggingOut" /\ req[q].sid = s
        BY <3>3
      <4>2. req'[q] = req[q]
        BY <1>9, <4>1 DEF Connecting
      <4> QED
        BY <4>1, <4>2
    <3> QED
      BY <1>17, <2>3, <3>2, <3>3 DEF SessionsAreGivenBack
  <2> QED
    BY <2>1, <2>2, <2>3
<1> QED
  BY <1>15, <1>16, <1>17

LEMMA LoginFails ==
  ASSUME Typed, NEW b \in Boxes, loginFails(b)
  PROVE  /\ Typed' /\ Survived
         /\ SessionsAreGivenBack => SessionsAreGivenBack'
<1>1. PICK failing : failing = {q \in Requests : \E i \in Commands : Waiting(q, i, b)}
  OBVIOUS
<1>2. /\ faults' \in 0..MaxFaults /\ logins' \in 0..MaxLogins /\ UNCHANGED fritzBox
      /\ alive' \subseteq Sids /\ left' \subseteq Sids
      /\ alive \subseteq alive' /\ left \subseteq left' /\ alive' \ left' \subseteq alive \ left
      /\ faults' = faults => logins = MaxLogins
  <2>1. /\ logins \in 0..MaxLogins /\ faults \in 0..MaxFaults
        /\ alive \subseteq Sids /\ left \subseteq Sids
    BY DEF Typed, TypeOK
  <2>2. UNCHANGED fritzBox /\ loginUnanswered
    BY DEF loginFails
  <2>3. CASE logins = MaxLogins /\ UNCHANGED <<logins, faults, alive, left>>
    BY <2>1, <2>2, <2>3
  <2>4. ASSUME NEW lost \in 0..MaxAttempts,
               faults' = IF lost = 0 THEN faults + 1 ELSE faults + lost,
               logins' = logins + lost, faults' <= MaxFaults, logins' <= MaxLogins,
               alive' = alive \cup lostLogins(lost), left' = left \cup lostLogins(lost)
        PROVE  /\ faults' \in 0..MaxFaults /\ logins' \in 0..MaxLogins
               /\ lostLogins(lost) \subseteq Sids /\ faults' # faults
    BY <2>1, <2>4 DEF lostLogins, Sids
  <2> QED
    BY <2>1, <2>2, <2>3, <2>4 DEF loginUnanswered
<1>3. PICK x : x = [box[b] EXCEPT !.calls = 0,
                                  !.state = IF Connecting(b) # {} THEN "disconnected" ELSE @]
  OBVIOUS
<1>4. x \in BoxRecords /\ x.sid = box[b].sid /\ x.calls = 0
  <2>1. box[b] \in BoxRecords
    BY DEF Typed, TypeOK
  <2> QED
    BY <1>3, <2>1 DEF BoxRecords
<1>5. PICK boxes : boxes = [box EXCEPT ![b] = x]
  OBVIOUS
<1>6. box' = Kept(boxes)
  BY <1>3, <1>5 DEF loginFails
<1>7. /\ boxes \in [Boxes -> BoxRecords] /\ boxes[b] = x
      /\ \A c \in Boxes : Asks(boxes[c]) /\ (c # b => boxes[c] = box[c])
  BY <1>4, <1>5 DEF Typed, TypeOK, Asks
<1>8. /\ box' \in [Boxes -> BoxRecords]
      /\ \A c \in Boxes : Asks(box'[c]) /\ (boxes[c].calls # 0 => box'[c].calls # 0)
      /\ fritzBox' \in Boxes => box'[fritzBox'] = boxes[fritzBox']
  BY <1>6, <1>7, KeptBoxes
<1>9. /\ req' \in [Requests -> RequestRecords]
      /\ \A q \in Requests :
           \/ q \in Connecting(b) /\ req'[q] = Idle
           \/ /\ q \notin Connecting(b) /\ req'[q].step = req[q].step /\ req'[q].box = req[q].box
              /\ req'[q].stages = req[q].stages /\ req'[q].sid = req[q].sid
              /\ q \notin failing => req'[q] = req[q]
  <2>1. req \in [Requests -> RequestRecords] /\ Idle \in RequestRecords
    BY RecordTypes DEF Typed, TypeOK
  <2>2. req' = [q \in Requests |-> IF q \in Connecting(b) THEN Idle
                                   ELSE [req[q] EXCEPT !.failed = @ \/ q \in failing]]
    BY <1>1 DEF loginFails
  <2>3. ASSUME NEW q \in Requests
        PROVE  /\ req'[q] \in RequestRecords
               /\ \/ q \in Connecting(b) /\ req'[q] = Idle
                  \/ /\ q \notin Connecting(b) /\ req'[q].step = req[q].step /\ req'[q].box = req[q].box
                     /\ req'[q].stages = req[q].stages /\ req'[q].sid = req[q].sid
                     /\ q \notin failing => req'[q] = req[q]
    <3>1. CASE q \in Connecting(b)
      BY <2>1, <2>2, <3>1
    <3>2. CASE q \notin Connecting(b)
      <4>1. req[q] \in RequestRecords
        BY <2>1
      <4>2. PICK y : y = [req[q] EXCEPT !.failed = @ \/ q \in failing]
        OBVIOUS
      <4>3. req'[q] = y
        BY <2>2, <3>2, <4>2
      <4>4. /\ y \in RequestRecords /\ y.step = req[q].step /\ y.box = req[q].box
            /\ y.stages = req[q].stages /\ y.sid = req[q].sid
            /\ q \notin failing => y = req[q]
        BY <4>1, <4>2 DEF RequestRecords
      <4> QED
        BY <3>2, <4>3, <4>4
    <3> QED
      BY <3>1, <3>2
  <2> QED
    BY <2>2, <2>3
<1>10. /\ cmd' \in [Requests -> [Commands -> CommandRecords]]
       /\ \A q \in Requests, i \in Commands :
            cmd'[q][i] = IF Waiting(q, i, b) THEN NoCommand ELSE cmd[q][i]
  <2>1. cmd \in [Requests -> [Commands -> CommandRecords]] /\ NoCommand \in CommandRecords
    BY RecordTypes DEF Typed, TypeOK
  <2>2. cmd' = [q \in Requests |-> [i \in Commands |->
               IF Waiting(q, i, b) THEN NoCommand ELSE cmd[q][i]]]
    BY DEF loginFails
  <2> QED
    BY <2>1, <2>2
<1>11. TypeOK'
  BY <1>2, <1>8, <1>9, <1>10 DEF Typed, TypeOK
<1>12. ASSUME NEW q \in Requests PROVE Shaped(q)'
  <2>1. Shaped(q)
    BY DEF Typed
  <2>2. CASE q \in Connecting(b)
    <3>1. req[q].step = "connecting" /\ req'[q].step = "idle"
      BY <1>9, <2>2, RecordTypes DEF Connecting
    <3>2. \A i \in Commands : cmd[q][i].step = "idle" /\ cmd'[q][i].step = "idle"
      BY <1>10, <2>1, <3>1 DEF Shaped, Waiting
    <3> QED
      BY <3>1, <3>2 DEF Shaped
  <2>3. CASE q \notin Connecting(b)
    <3>1. req'[q].step = req[q].step /\ req'[q].box = req[q].box /\ req'[q].stages = req[q].stages
      BY <1>9, <2>3
    <3>2. req[q].step = "connecting" => box'[req[q].box].calls # 0
      BY <1>7, <1>8, <2>1, <2>3 DEF Connecting, Shaped
    <3>3. ASSUME NEW i \in Commands
          PROVE  /\ cmd'[q][i].step # "idle" => req[q].step = "running"
                 /\ cmd'[q][i].step \in {"waiting", "waitingAgain"} => box'[req[q].box].calls # 0
      <4>1. CASE Waiting(q, i, b)
        BY <1>10, <4>1, RecordTypes
      <4>2. CASE ~Waiting(q, i, b)
        BY <1>7, <1>8, <1>10, <2>1, <4>2 DEF Waiting, Shaped
      <4> QED
        BY <4>1, <4>2
    <3> QED
      BY <2>1, <3>1, <3>2, <3>3 DEF Shaped
  <2> QED
    BY <2>2, <2>3
<1>13. ASSUME NEW q \in Requests, NEW i \in Commands PROVE Deaths(cmd'[q][i], alive')
  BY <1>2, <1>10, RecordTypes DEF Typed, Deaths
<1>14. Typed'
  BY <1>8, <1>11, <1>12, <1>13 DEF Typed
<1>15. Survived
  BY <1>2 DEF Survived, Typed, TypeOK
<1>16. ASSUME SessionsAreGivenBack PROVE SessionsAreGivenBack'
  <2> SUFFICES ASSUME NEW s \in alive', s \notin left'
               PROVE  \/ fritzBox' # None /\ box'[fritzBox'].sid = s
                      \/ \E r \in Requests : req'[r].step = "loggingOut" /\ req'[r].sid = s
    BY DEF SessionsAreGivenBack
  <2>1. \/ fritzBox # None /\ box[fritzBox].sid = s
        \/ \E r \in Requests : req[r].step = "loggingOut" /\ req[r].sid = s
    BY <1>2, <1>16 DEF SessionsAreGivenBack
  <2>2. CASE fritzBox # None /\ box[fritzBox].sid = s
    BY <1>2, <1>4, <1>7, <1>8, <2>2 DEF Typed, TypeOK
  <2>3. CASE \E r \in Requests : req[r].step = "loggingOut" /\ req[r].sid = s
    BY <1>9, <2>3 DEF Connecting
  <2> QED
    BY <2>1, <2>2, <2>3
<1> QED
  BY <1>14, <1>15, <1>16

(* The box answers a logout, or does not, and ends sessions by itself.      *)
LEMMA Died ==
  ASSUME Typed, NEW S, alive' = alive \ S, cmd' = died(S)
  PROVE  /\ cmd' \in [Requests -> [Commands -> CommandRecords]]
         /\ \A q \in Requests, i \in Commands :
              cmd'[q][i].step = cmd[q][i].step /\ Deaths(cmd'[q][i], alive')
<1>1. cmd \in [Requests -> [Commands -> CommandRecords]]
  BY DEF Typed, TypeOK
<1>2. cmd' = [q \in Requests |-> [i \in Commands |->
             IF cmd[q][i].step # "idle" /\ S \cap alive # {}
             THEN [cmd[q][i] EXCEPT !.deaths = IF @ = 2 THEN 2 ELSE @ + 1] ELSE cmd[q][i]]]
  BY DEF died
<1>3. ASSUME NEW q \in Requests, NEW i \in Commands
      PROVE  /\ cmd'[q][i] \in CommandRecords
             /\ cmd'[q][i].step = cmd[q][i].step /\ Deaths(cmd'[q][i], alive')
  <2>1. cmd[q][i] \in CommandRecords /\ Deaths(cmd[q][i], alive)
    BY <1>1 DEF Typed
  <2>2. CASE cmd[q][i].step # "idle" /\ S \cap alive # {}
    <3>1. PICK d : d = IF cmd[q][i].deaths = 2 THEN 2 ELSE cmd[q][i].deaths + 1
      OBVIOUS
    <3>2. PICK y : y = [cmd[q][i] EXCEPT !.deaths = d]
      OBVIOUS
    <3>3. cmd'[q][i] = y
      BY <1>2, <2>1, <2>2, <3>1, <3>2 DEF CommandRecords
    <3>4. d \in 1..2 /\ (cmd[q][i].deaths # 0 => d = 2)
      <4>1. cmd[q][i].deaths \in 0..2
        BY <2>1 DEF CommandRecords
      <4> QED
        BY <3>1, <4>1
    <3>5. y \in CommandRecords /\ y.step = cmd[q][i].step /\ y.deaths = d
      BY <2>1, <3>2, <3>4 DEF CommandRecords
    <3>6. d # 0
      BY <3>4
    <3>7. Deaths(y, alive')
      BY <2>1, <3>4, <3>5, <3>6 DEF Deaths
    <3> QED
      BY <3>3, <3>5, <3>7
  <2>3. CASE cmd[q][i].step = "idle"
    BY <1>2, <2>1, <2>3 DEF Deaths
  <2>4. CASE S \cap alive = {}
    <3>1. alive' = alive
      BY <2>4
    <3>2. cmd'[q][i] = cmd[q][i]
      BY <1>2, <2>4
    <3> QED
      BY <2>1, <3>1, <3>2
  <2> QED
    BY <2>2, <2>3, <2>4
<1>4. \A q \in Requests : cmd'[q] \in [Commands -> CommandRecords]
  BY <1>2, <1>3
<1> QED
  BY <1>2, <1>3, <1>4

LEMMA SessionExpires ==
  ASSUME Typed, NEW s \in Sids, sessionExpires(s)
  PROVE  /\ Typed' /\ Survived
         /\ SessionsAreGivenBack => SessionsAreGivenBack'
<1>1. alive' = alive \ {s} /\ UNCHANGED <<fritzBox, box, req, logins, faults>> /\ left' = left \ {s}
  BY DEF sessionExpires
<1>2. cmd' = died({s})
  BY DEF sessionExpires
<1>3. PICK S : S = {s}
  OBVIOUS
<1>4. cmd' = died(S) /\ alive' = alive \ S
  BY <1>1, <1>2, <1>3
<1>5. /\ cmd' \in [Requests -> [Commands -> CommandRecords]]
      /\ \A q \in Requests, i \in Commands :
           cmd'[q][i].step = cmd[q][i].step /\ Deaths(cmd'[q][i], alive')
  BY <1>4, Died
<1>6. TypeOK'
  BY <1>1, <1>5 DEF Typed, TypeOK
<1>7. \A q \in Requests : Shaped(q)'
  BY <1>1, <1>5 DEF Typed, Shaped
<1>8. Typed'
  BY <1>1, <1>5, <1>6, <1>7 DEF Typed
<1>9. Survived
  BY <1>1 DEF Survived
<1> QED
  BY <1>1, <1>8, <1>9, SessionsStay

LEMMA LogoutAnswered ==
  ASSUME Typed, NEW r \in Requests, logoutAnswered(r) \/ logoutFails(r)
  PROVE  /\ Typed' /\ Survived
         /\ SessionsAreGivenBack => SessionsAreGivenBack'
<1>1. /\ req[r].step = "loggingOut" /\ req' = [req EXCEPT ![r] = Idle] /\ logins' = logins
      /\ box' = Kept([box EXCEPT ![req[r].box].state = "disconnected"])
  BY DEF logoutAnswered, logoutFails
<1>2. req[r].box \in Boxes /\ req \in [Requests -> RequestRecords] /\ box \in [Boxes -> BoxRecords]
  BY <1>1 DEF Typed, TypeOK, Shaped
<1>3. PICK x : x = [box[req[r].box] EXCEPT !.state = "disconnected"]
  OBVIOUS
<1>4. x \in BoxRecords /\ x.sid = box[req[r].box].sid /\ x.calls = box[req[r].box].calls
  BY <1>2, <1>3 DEF BoxRecords
<1>5. PICK boxes : boxes = [box EXCEPT ![req[r].box] = x]
  OBVIOUS
<1>6. box' = Kept(boxes)
  BY <1>1, <1>3, <1>5
<1>7. /\ boxes \in [Boxes -> BoxRecords]
      /\ \A c \in Boxes : Asks(boxes[c]) /\ boxes[c].calls = box[c].calls /\ boxes[c].sid = box[c].sid
  BY <1>2, <1>4, <1>5 DEF Typed, Asks
<1>8. /\ box' \in [Boxes -> BoxRecords]
      /\ \A c \in Boxes : Asks(box'[c]) /\ (boxes[c].calls # 0 => box'[c].calls # 0)
      /\ fritzBox' \in Boxes => box'[fritzBox'] = boxes[fritzBox']
  BY <1>6, <1>7, KeptBoxes
<1>9. /\ req' \in [Requests -> RequestRecords] /\ req'[r].step = "idle" /\ ~req'[r].failed
      /\ \A q \in Requests \ {r} : req'[q] = req[q]
  <2>1. Idle \in RequestRecords /\ Idle.step = "idle" /\ ~Idle.failed
    BY RecordTypes
  <2>2. /\ req' \in [Requests -> RequestRecords] /\ req'[r] = Idle
        /\ \A q \in Requests \ {r} : req'[q] = req[q]
    BY <1>1, <1>2, <2>1
  <2> QED
    BY <2>1, <2>2
<1>10. /\ cmd' \in [Requests -> [Commands -> CommandRecords]]
       /\ \A q \in Requests, i \in Commands :
            cmd'[q][i].step = cmd[q][i].step /\ Deaths(cmd'[q][i], alive')
  <2>1. CASE logoutAnswered(r)
    <3>1. PICK S : S = {req[r].sid}
      OBVIOUS
    <3>2. cmd' = died(S) /\ alive' = alive \ S
      BY <2>1, <3>1 DEF logoutAnswered
    <3> QED
      BY <3>2, Died
  <2>2. CASE logoutFails(r)
    <3>1. cmd' = cmd /\ alive' = alive
      BY <2>2 DEF logoutFails
    <3> QED
      BY <3>1 DEF Typed, TypeOK
  <2> QED
    BY <2>1, <2>2
<1>11. fritzBox' \in Boxes \cup {None} /\ alive' \subseteq Sids /\ left' \subseteq Sids
  <2>1. fritzBox \in Boxes \cup {None} /\ alive \subseteq Sids /\ left \subseteq Sids
    BY DEF Typed, TypeOK
  <2>2. session(fritzBox) \subseteq Sids
    BY <2>1 DEF session
  <2>3. CASE logoutAnswered(r)
    BY <2>1, <2>2, <2>3 DEF logoutAnswered, dropBox
  <2>4. CASE logoutFails(r)
    BY <2>1, <2>4 DEF logoutFails
  <2> QED
    BY <2>3, <2>4
<1>12. faults' \in 0..MaxFaults
  BY DEF logoutAnswered, logoutFails, Typed, TypeOK
<1>13. TypeOK'
  BY <1>1, <1>8, <1>9, <1>10, <1>11, <1>12 DEF Typed, TypeOK
<1>14. ASSUME NEW q \in Requests PROVE Shaped(q)'
  <2>1. Shaped(q) /\ \A i \in Commands : cmd'[q][i].step = cmd[q][i].step
    BY <1>10 DEF Typed
  <2>2. CASE q = r
    <3>1. req[q].step = "loggingOut" /\ req'[q].step = "idle"
      BY <1>1, <1>9, <2>2
    <3>2. \A i \in Commands : cmd'[q][i].step = "idle"
      BY <2>1, <3>1 DEF Shaped
    <3> QED
      BY <3>1, <3>2 DEF Shaped
  <2>3. CASE q # r
    <3>1. req'[q] = req[q]
      BY <1>9, <2>3
    <3>2. req[q].box \in Boxes /\ box[req[q].box].calls # 0 => box'[req[q].box].calls # 0
      BY <1>7, <1>8
    <3> QED
      BY <2>1, <3>1, <3>2 DEF Shaped
  <2> QED
    BY <2>2, <2>3
<1>15. Typed'
  BY <1>8, <1>10, <1>13, <1>14 DEF Typed
<1>16. Survived
  BY <1>9 DEF Survived
<1>17. ASSUME SessionsAreGivenBack PROVE SessionsAreGivenBack'
  <2>1. CASE logoutAnswered(r)
    <3> SUFFICES ASSUME NEW s \in alive', s \notin left'
                 PROVE  \E q \in Requests : req'[q].step = "loggingOut" /\ req'[q].sid = s
      BY DEF SessionsAreGivenBack
    <3>1. /\ alive' = alive \ {req[r].sid}
          /\ left' = left \cup session(fritzBox)
      BY <2>1 DEF logoutAnswered, dropBox
    <3>2. s \in alive /\ s # req[r].sid /\ s \notin left
      BY <3>1
    <3>3. ~(fritzBox # None /\ box[fritzBox].sid = s)
      BY <3>1, <3>2 DEF session
    <3>4. PICK q \in Requests : req[q].step = "loggingOut" /\ req[q].sid = s
      BY <1>17, <3>2, <3>3 DEF SessionsAreGivenBack
    <3> QED
      BY <1>9, <3>2, <3>4
  <2>2. CASE logoutFails(r)
    <3> SUFFICES ASSUME NEW s \in alive', s \notin left'
                 PROVE  \/ fritzBox' # None /\ box'[fritzBox'].sid = s
                        \/ \E q \in Requests : req'[q].step = "loggingOut" /\ req'[q].sid = s
      BY DEF SessionsAreGivenBack
    <3>1. /\ s \in alive /\ s # req[r].sid /\ s \notin left /\ fritzBox' = fritzBox
          /\ fritzBox \in Boxes \cup {None}
      BY <2>2 DEF logoutFails, Typed, TypeOK
    <3>2. CASE fritzBox # None /\ box[fritzBox].sid = s
      BY <1>7, <1>8, <3>1, <3>2
    <3>3. CASE \E q \in Requests : req[q].step = "loggingOut" /\ req[q].sid = s
      BY <1>9, <3>1, <3>3
    <3> QED
      BY <1>17, <3>1, <3>2, <3>3 DEF SessionsAreGivenBack
  <2> QED
    BY <2>1, <2>2
<1> QED
  BY <1>15, <1>16, <1>17

(* The endpoints, once more.                                               *)
LEMMA Endpoints ==
  ASSUME Typed, NEW r \in Requests, Endpoint(r)
  PROVE  /\ Typed' /\ Survived
         /\ SessionsAreGivenBack => SessionsAreGivenBack'
<1>1. CASE connect(r)
  <2>1. PICK b \in unusedBoxes :
         /\ box' = [box EXCEPT ![b] = [state |-> "connecting", sid |-> 0, calls |-> 1]]
         /\ req' = [req EXCEPT ![r] = [Idle EXCEPT !.step = "connecting", !.box = b]]
    BY <1>1 DEF connect
  <2>2. b # fritzBox /\ req[r].step = "idle" /\ UNCHANGED <<fritzBox, alive, left>>
    BY <1>1, <2>1 DEF connect, unusedBoxes
  <2>3. fritzBox \in Boxes => box'[fritzBox] = box[fritzBox]
    BY <2>1, <2>2 DEF Typed, TypeOK
  <2>4. PICK x : x = [Idle EXCEPT !.step = "connecting", !.box = b]
    OBVIOUS
  <2>5. x.failed = Idle.failed
    BY <2>4 DEF Idle
  <2>6. req'[r] = x /\ \A q \in Requests \ {r} : req'[q] = req[q]
    BY <2>1, <2>4 DEF Typed, TypeOK
  <2>7. Survived
    BY <2>5, <2>6, RecordTypes DEF Survived
  <2>8. fritzBox \in Boxes \cup {None}
    BY DEF Typed, TypeOK
  <2>9. \A q \in Requests : req[q].step = "loggingOut" => req'[q] = req[q]
    BY <2>2, <2>6
  <2> QED
    BY <1>1, <2>2, <2>3, <2>7, <2>8, <2>9, ConnectTyped, SessionsStay
<1>2. CASE disconnect(r)
  <2>1. /\ Typed'
        /\ \/ box[fritzBox].sid = 0 /\ dropBox /\ req' = req
           \/ /\ fritzBox' = fritzBox /\ left' = left
              /\ req'[r].step = "loggingOut" /\ req'[r].sid = box[fritzBox].sid /\ ~req'[r].failed
              /\ req[r].step = "idle" /\ \A q \in Requests \ {r} : req'[q] = req[q]
    BY <1>2, DisconnectTyped
  <2>2. alive' = alive
    BY <1>2 DEF disconnect
  <2>3. Survived
    BY <2>1 DEF Survived
  <2>4. ASSUME SessionsAreGivenBack PROVE SessionsAreGivenBack'
    <3> SUFFICES ASSUME NEW s \in alive, s \notin left'
                 PROVE  \E q \in Requests : req'[q].step = "loggingOut" /\ req'[q].sid = s
      BY <2>2 DEF SessionsAreGivenBack
    <3>1. s \notin left /\ s # 0
      BY <2>1 DEF dropBox, Typed, TypeOK, Sids
    <3>2. \/ fritzBox # None /\ box[fritzBox].sid = s
          \/ \E q \in Requests : req[q].step = "loggingOut" /\ req[q].sid = s
      BY <2>4, <3>1 DEF SessionsAreGivenBack
    <3> QED
      BY <2>1, <3>1, <3>2
  <2> QED
    BY <2>1, <2>3, <2>4
<1>3. CASE execute(r) \/ getTemperature(r)
  <2>1. PICK stages \in {1, 4} : query(r, stages)
    BY <1>3 DEF execute, getTemperature
  <2>2. /\ Typed' /\ \A q \in Requests \ {r} : req'[q] = req[q]
        /\ req[r].step = "idle" /\ req'[r].step = "running" /\ ~req'[r].failed
        /\ \A c \in Boxes : box'[c].sid = box[c].sid
        /\ UNCHANGED <<fritzBox, alive, left>>
    BY <2>1, QueryTyped
  <2>3. Survived
    BY <2>2 DEF Survived
  <2>4. fritzBox \in Boxes \cup {None}
    BY DEF Typed, TypeOK
  <2>5. \A q \in Requests : req[q].step = "loggingOut" => req'[q] = req[q]
    BY <2>2
  <2> QED
    BY <2>2, <2>3, <2>4, <2>5, SessionsStay
<1> QED
  BY <1>1, <1>2, <1>3 DEF Endpoint

(* A request goes on, and the answers to its commands.                      *)
LEMMA Proceed ==
  ASSUME Typed, NEW r \in Requests, proceed(r)
  PROVE  /\ Typed' /\ Survived
         /\ SessionsAreGivenBack => SessionsAreGivenBack'
<1>1. PICK b : b = IF req[r].stages = 4 THEN fritzBox ELSE req[r].box
  OBVIOUS
<1>2. /\ req[r].step = "running" /\ \A i \in Commands : cmd[r][i].step = "idle"
      /\ UNCHANGED <<fritzBox, alive, logins, faults, left>>
  BY DEF proceed
<1>3. /\ req[r].box \in Boxes /\ req[r] \in RequestRecords /\ b \in Boxes \cup {None}
      /\ req \in [Requests -> RequestRecords] /\ box \in [Boxes -> BoxRecords]
      /\ req[r].stages # 0 /\ \A c \in Boxes : Asks(box[c])
  BY <1>1, <1>2 DEF Typed, TypeOK, Shaped
<1>4. PICK boxes : boxes = IF req'[r].step = "idle" THEN box ELSE getSid(b, box)
  OBVIOUS
<1>5. box' = Kept(boxes)
  BY <1>1, <1>4 DEF proceed
<1>6. CASE req[r].failed \/ req[r].stages = 1 \/ b = None
  <2>1. req' = [req EXCEPT ![r] = Idle] /\ cmd' = cmd
    BY <1>1, <1>6 DEF proceed
  <2>2. Idle \in RequestRecords /\ Idle.step = "idle" /\ ~Idle.failed
    BY RecordTypes
  <2>3. /\ req' \in [Requests -> RequestRecords] /\ req'[r] = Idle
        /\ \A q \in Requests \ {r} : req'[q] = req[q]
    BY <1>3, <2>1, <2>2
  <2>4. boxes = box
    BY <1>4, <2>2, <2>3
  <2>5. /\ box' \in [Boxes -> BoxRecords]
        /\ \A c \in Boxes : /\ Asks(box'[c])
                            /\ box[c].calls # 0 => box'[c].calls # 0
        /\ fritzBox' \in Boxes => box'[fritzBox'] = box[fritzBox']
    BY <1>3, <1>5, <2>4, KeptBoxes
  <2>6. TypeOK'
    BY <1>2, <2>1, <2>3, <2>5 DEF Typed, TypeOK
  <2>7. ASSUME NEW q \in Requests PROVE Shaped(q)'
    <3>1. CASE q = r
      BY <1>2, <2>1, <2>2, <2>3, <3>1 DEF Shaped
    <3>2. CASE q # r
      BY <2>1, <2>3, <2>5, <3>2 DEF Typed, Shaped
    <3> QED
      BY <3>1, <3>2
  <2>8. Typed'
    BY <1>2, <2>1, <2>5, <2>6, <2>7 DEF Typed
  <2>9. Survived
    BY <2>2, <2>3 DEF Survived
  <2>10. fritzBox \in Boxes \cup {None}
    BY DEF Typed, TypeOK
  <2>11. \A q \in Requests : req[q].step = "loggingOut" => req'[q] = req[q]
    BY <1>2, <2>3
  <2> QED
    BY <1>2, <2>5, <2>8, <2>9, <2>10, <2>11, SessionsStay
<1>7. CASE ~(req[r].failed \/ req[r].stages = 1 \/ b = None)
  <2>1. b \in Boxes
    BY <1>3, <1>7
  <2>2. PICK next \in nextStages(req[r].stages) :
          /\ req' = [req EXCEPT ![r].stages = next, ![r].box = b]
          /\ cmd' = Sent(r, IF next = 1 THEN Commands ELSE {1}, b)
    BY <1>1, <1>7 DEF proceed
  <2>3. next \in 0..4 /\ next # 0
    <3>1. req[r].stages \in 0..4 /\ req[r].stages # 1 /\ req[r].stages # 0
      BY <1>3, <1>7 DEF RequestRecords
    <3> QED
      BY <3>1 DEF nextStages
  <2>4. PICK x : x = [req[r] EXCEPT !.stages = next, !.box = b]
    OBVIOUS
  <2>5. /\ x \in RequestRecords /\ x.step = req[r].step /\ x.box = b /\ x.stages = next
        /\ x.failed = req[r].failed
    BY <1>3, <2>1, <2>3, <2>4 DEF RequestRecords
  <2>6. req' = [req EXCEPT ![r] = x]
    <3>1. req' = [req EXCEPT ![r].stages = next, ![r].box = b]
      BY <2>2
    <3> QED
      BY <1>3, <2>4, <3>1 DEF RequestRecords
  <2>7. /\ req' \in [Requests -> RequestRecords] /\ req'[r] = x
        /\ \A q \in Requests \ {r} : req'[q] = req[q]
    BY <1>3, <2>5, <2>6
  <2>8. boxes = getSid(b, box)
    BY <1>2, <1>4, <2>5, <2>7
  <2>9. /\ boxes \in [Boxes -> BoxRecords]
        /\ \A c \in Boxes : /\ Asks(boxes[c]) /\ boxes[c].sid = box[c].sid
                            /\ box[c].calls # 0 => boxes[c].calls # 0
        /\ boxes[b].sid = 0 => boxes[b].calls # 0
    BY <1>3, <2>1, <2>8, GetSid
  <2>10. /\ box' \in [Boxes -> BoxRecords]
         /\ \A c \in Boxes : /\ Asks(box'[c])
                             /\ boxes[c].calls # 0 => box'[c].calls # 0
         /\ fritzBox' \in Boxes => box'[fritzBox'] = boxes[fritzBox']
    BY <1>5, <2>9, KeptBoxes
  <2>11. PICK is : is = IF next = 1 THEN Commands ELSE {1}
    OBVIOUS
  <2>12. PICK C : C = Sent(r, is, b)
    OBVIOUS
  <2>13. cmd' = C
    BY <2>2, <2>11, <2>12
  <2>14. /\ C \in [Requests -> [Commands -> CommandRecords]]
         /\ \A q \in Requests \ {r} : C[q] = cmd[q]
         /\ \A i \in Commands : /\ Deaths(C[r][i], alive)
                                /\ C[r][i].step \in {"waiting", "waitingAgain"} => box[b].sid = 0
    BY <1>2, <2>1, <2>12, SentCommands
  <2>15. TypeOK'
    BY <1>2, <2>7, <2>10, <2>13, <2>14 DEF Typed, TypeOK
  <2>16. ASSUME NEW q \in Requests PROVE Shaped(q)'
    <3>1. CASE q = r
      BY <1>2, <2>1, <2>3, <2>5, <2>7, <2>9, <2>10, <2>13, <2>14, <3>1 DEF Shaped
    <3>2. CASE q # r
      BY <2>7, <2>9, <2>10, <2>13, <2>14, <3>2 DEF Typed, Shaped
    <3> QED
      BY <3>1, <3>2
  <2>17. \A q \in Requests, i \in Commands : Deaths(cmd'[q][i], alive')
    BY <1>2, <2>13, <2>14 DEF Typed
  <2>18. Typed'
    BY <2>10, <2>15, <2>16, <2>17 DEF Typed
  <2>19. Survived
    BY <2>5, <2>7 DEF Survived
  <2>20. fritzBox \in Boxes \cup {None}
    BY DEF Typed, TypeOK
  <2>21. \A q \in Requests : req[q].step = "loggingOut" => req'[q] = req[q]
    BY <1>2, <2>7
  <2> QED
    BY <1>2, <2>9, <2>10, <2>18, <2>19, <2>20, <2>21, SessionsStay
<1> QED
  BY <1>6, <1>7

(* A command that ends, with its request failed or not.                     *)
LEMMA CommandEnds ==
  ASSUME Typed, NEW r \in Requests, NEW i \in Commands, cmd[r][i].step # "idle",
         cmd' = Written(r, i, NoCommand), req' = req \/ req' = Failed(r)
  PROVE  /\ req' \in [Requests -> RequestRecords]
         /\ cmd' \in [Requests -> [Commands -> CommandRecords]]
         /\ cmd'[r][i].step = "idle"
         /\ \A q \in Requests, j \in Commands : cmd'[q][j] = NoCommand \/ cmd'[q][j] = cmd[q][j]
         /\ \A q \in Requests : /\ req'[q].step = req[q].step /\ req'[q].box = req[q].box
                                /\ req'[q].stages = req[q].stages /\ req'[q].sid = req[q].sid
                                /\ q # r => req'[q] = req[q]
         /\ req[r].step = "running"
<1>1. req \in [Requests -> RequestRecords] /\ req[r].step = "running"
  BY DEF Typed, TypeOK, Shaped
<1>2. NoCommand \in CommandRecords /\ NoCommand.step = "idle"
  BY RecordTypes
<1>3. /\ cmd' \in [Requests -> [Commands -> CommandRecords]] /\ cmd'[r][i] = NoCommand
      /\ \A q \in Requests, j \in Commands : q # r \/ j # i => cmd'[q][j] = cmd[q][j]
  BY <1>2, CommandWritten
<1>4. \A q \in Requests, j \in Commands : cmd'[q][j] = NoCommand \/ cmd'[q][j] = cmd[q][j]
  BY <1>3
<1>5. /\ req' \in [Requests -> RequestRecords]
      /\ \A q \in Requests : /\ req'[q].step = req[q].step /\ req'[q].box = req[q].box
                             /\ req'[q].stages = req[q].stages /\ req'[q].sid = req[q].sid
                             /\ q # r => req'[q] = req[q]
  <2>1. CASE req' = req
    BY <1>1, <2>1
  <2>2. CASE req' = Failed(r)
    <3>1. PICK x : x = [req[r] EXCEPT !.failed = TRUE]
      OBVIOUS
    <3>2. /\ x \in RequestRecords /\ x.step = req[r].step /\ x.box = req[r].box
          /\ x.stages = req[r].stages /\ x.sid = req[r].sid
      BY <3>1, RequestFails
    <3>3. req' = [req EXCEPT ![r] = x]
      BY <1>1, <2>2, <3>1 DEF Failed
    <3>4. /\ req' \in [Requests -> RequestRecords] /\ req'[r] = x
          /\ \A q \in Requests \ {r} : req'[q] = req[q]
      BY <1>1, <3>2, <3>3
    <3> QED
      BY <3>2, <3>4
  <2> QED
    BY <2>1, <2>2
<1> QED
  BY <1>1, <1>2, <1>3, <1>4, <1>5

LEMMA Accepted ==
  ASSUME Typed, NEW r \in Requests, NEW i \in Commands, accepted(r, i)
  PROVE  /\ Typed' /\ Survived
         /\ SessionsAreGivenBack => SessionsAreGivenBack'
<1>1. /\ cmd[r][i].step # "idle" /\ cmd' = Written(r, i, NoCommand)
      /\ UNCHANGED <<fritzBox, box, alive, req, logins, faults, left>>
  BY DEF accepted, IsSent, Written
<1>2. /\ cmd' \in [Requests -> [Commands -> CommandRecords]]
      /\ \A q \in Requests, j \in Commands : cmd'[q][j] = NoCommand \/ cmd'[q][j] = cmd[q][j]
  BY <1>1, CommandEnds
<1>3. TypeOK'
  BY <1>1, <1>2 DEF Typed, TypeOK
<1>4. \A q \in Requests : Shaped(q)'
  BY <1>1, <1>2, RecordTypes DEF Typed, Shaped
<1>5. \A q \in Requests, j \in Commands : Deaths(cmd'[q][j], alive')
  BY <1>1, <1>2, RecordTypes DEF Typed, Deaths
<1>6. Typed'
  BY <1>1, <1>3, <1>4, <1>5 DEF Typed
<1>7. Survived
  BY <1>1 DEF Survived
<1> QED
  BY <1>1, <1>6, <1>7, SessionsStay

LEMMA Unanswered ==
  ASSUME Typed, NEW r \in Requests, NEW i \in Commands, unanswered(r, i)
  PROVE  /\ Typed' /\ Survived
         /\ SessionsAreGivenBack => SessionsAreGivenBack'
<1>1. /\ cmd[r][i].step # "idle" /\ faults' \in 0..MaxFaults /\ faults' # faults
      /\ UNCHANGED <<fritzBox, box, alive, logins, left>>
  BY DEF unanswered, IsSent, Typed, TypeOK
<1>2. Survived
  BY <1>1 DEF Survived
<1>3. CASE cmd[r][i].attempt < MaxAttempts
  <2>1. PICK x : x = [cmd[r][i] EXCEPT !.attempt = @ + 1]
    OBVIOUS
  <2>2. cmd \in [Requests -> [Commands -> CommandRecords]] /\ cmd[r][i] \in CommandRecords
    BY DEF Typed, TypeOK
  <2>3. cmd[r][i].attempt + 1 \in 1..MaxAttempts
    <3>1. cmd[r][i].attempt \in 1..MaxAttempts
      BY <2>2 DEF CommandRecords
    <3> QED
      BY <1>3, <3>1
  <2>4. /\ x \in CommandRecords /\ x.step = cmd[r][i].step /\ x.sid = cmd[r][i].sid
        /\ x.deaths = cmd[r][i].deaths
    BY <2>1, <2>2, <2>3 DEF CommandRecords
  <2>5. PICK C : C = Written(r, i, x)
    OBVIOUS
  <2>6. cmd' = C /\ req' = req
    <3>1. cmd' = [cmd EXCEPT ![r][i].attempt = @ + 1] /\ req' = req
      BY <1>3 DEF unanswered
    <3> QED
      BY <2>1, <2>2, <2>5, <3>1 DEF Written
  <2>7. /\ C \in [Requests -> [Commands -> CommandRecords]] /\ C[r][i] = x
        /\ \A q \in Requests, j \in Commands : q # r \/ j # i => C[q][j] = cmd[q][j]
    BY <2>4, <2>5, CommandWritten
  <2>8. \A q \in Requests, j \in Commands :
          cmd'[q][j].step = cmd[q][j].step /\ Deaths(cmd'[q][j], alive)
    BY <2>4, <2>6, <2>7 DEF Typed, Deaths
  <2>9. TypeOK'
    BY <1>1, <2>6, <2>7 DEF Typed, TypeOK
  <2>10. \A q \in Requests : Shaped(q)'
    BY <1>1, <2>6, <2>8 DEF Typed, Shaped
  <2>11. Typed'
    BY <1>1, <2>8, <2>9, <2>10 DEF Typed
  <2> QED
    BY <1>1, <1>2, <2>6, <2>11, SessionsStay
<1>4. CASE ~(cmd[r][i].attempt < MaxAttempts)
  <2>1. cmd' = Written(r, i, NoCommand) /\ req' = Failed(r)
    BY <1>4 DEF unanswered, Written, Failed
  <2>2. /\ req' \in [Requests -> RequestRecords]
        /\ cmd' \in [Requests -> [Commands -> CommandRecords]]
        /\ \A q \in Requests, j \in Commands : cmd'[q][j] = NoCommand \/ cmd'[q][j] = cmd[q][j]
        /\ \A q \in Requests : /\ req'[q].step = req[q].step /\ req'[q].box = req[q].box
                               /\ req'[q].stages = req[q].stages
                               /\ q # r => req'[q] = req[q]
        /\ req[r].step = "running"
    BY <1>1, <2>1, CommandEnds
  <2>3. TypeOK'
    BY <1>1, <2>2 DEF Typed, TypeOK
  <2>4. \A q \in Requests : Shaped(q)'
    BY <1>1, <2>2, RecordTypes DEF Typed, Shaped
  <2>5. \A q \in Requests, j \in Commands : Deaths(cmd'[q][j], alive')
    BY <1>1, <2>2, RecordTypes DEF Typed, Deaths
  <2>6. Typed'
    BY <1>1, <2>3, <2>4, <2>5 DEF Typed
  <2>7. \A q \in Requests : req[q].step = "loggingOut" => req'[q] = req[q]
    BY <2>2
  <2> QED
    BY <1>1, <1>2, <2>6, <2>7, SessionsStay
<1> QED
  BY <1>3, <1>4

LEMMA Rejected ==
  ASSUME Typed, NEW r \in Requests, NEW i \in Commands, rejected(r, i)
  PROVE  /\ Typed' /\ Survived
         /\ SessionsAreGivenBack => SessionsAreGivenBack'
<1>1. PICK b : b = req[r].box
  OBVIOUS
<1>0. PICK live : live = (cmd[r][i].sid \in alive)
  OBVIOUS
<1>2. /\ cmd[r][i].step \in {"sent", "sentAgain"}
      /\ UNCHANGED <<fritzBox, alive, logins>>
      /\ faults' \in 0..MaxFaults /\ (faults' = faults => ~live)
      /\ left' = left \cup session(b) /\ left' \subseteq Sids
  <2>1. /\ faults \in 0..MaxFaults /\ left \subseteq Sids /\ alive \subseteq Sids
    BY DEF Typed, TypeOK
  <2>2. IF live THEN faults < MaxFaults /\ faults' = faults + 1 ELSE faults' = faults
    BY <1>0 DEF rejected
  <2>3. session(b) \subseteq Sids
    BY <2>1 DEF session
  <2>4. /\ cmd[r][i].step \in {"sent", "sentAgain"}
        /\ fritzBox' = fritzBox /\ alive' = alive /\ logins' = logins
        /\ left' = left \cup session(b)
    BY <1>1, Zenon DEF rejected, IsSent
  <2>5. faults' \in 0..MaxFaults /\ (faults' = faults => ~live)
    BY <2>1, <2>2, BoundsAssumption
  <2> QED
    BY <2>1, <2>3, <2>4, <2>5
<1>3. b \in Boxes /\ req[r].step = "running"
  BY <1>1, <1>2 DEF Typed, Shaped
<1>4. box \in [Boxes -> BoxRecords] /\ cmd \in [Requests -> [Commands -> CommandRecords]]
      /\ cmd[r][i] \in CommandRecords /\ Deaths(cmd[r][i], alive)
  BY DEF Typed, TypeOK
<1>5. PICK x : x = [box[b] EXCEPT !.sid = 0]
  OBVIOUS
<1>6. x \in BoxRecords /\ x.sid = 0 /\ x.calls = box[b].calls
  BY <1>3, <1>4, <1>5 DEF BoxRecords
<1>7. PICK boxes : boxes = invalidated(b)
  OBVIOUS
<1>8. /\ boxes \in [Boxes -> BoxRecords] /\ boxes[b].sid = 0
      /\ \A c \in Boxes : /\ Asks(boxes[c]) /\ boxes[c].calls = box[c].calls
                          /\ c # b => boxes[c].sid = box[c].sid
  <2>1. boxes = [box EXCEPT ![b] = x]
    BY <1>5, <1>7 DEF invalidated
  <2> QED
    BY <1>3, <1>4, <1>6, <2>1 DEF Typed, Asks
<1>9. fritzBox' \in Boxes \cup {None}
  BY <1>2 DEF Typed, TypeOK
<1>10. CASE cmd[r][i].step = "sent"
  <2>1. box' = getSid(b, boxes) /\ req' = req
    BY <1>1, <1>7, <1>10 DEF rejected
  <2>2. /\ box' \in [Boxes -> BoxRecords]
        /\ \A c \in Boxes : /\ Asks(box'[c]) /\ box'[c].sid = boxes[c].sid
                            /\ boxes[c].calls # 0 => box'[c].calls # 0
        /\ box'[b].calls # 0
    <3>1. boxes \in [Boxes -> BoxRecords] /\ \A c \in Boxes : Asks(boxes[c])
      BY <1>8
    <3>2. /\ box' \in [Boxes -> BoxRecords]
          /\ \A c \in Boxes : /\ Asks(box'[c]) /\ box'[c].sid = boxes[c].sid
                              /\ boxes[c].calls # 0 => box'[c].calls # 0
          /\ box'[b].sid = 0 => box'[b].calls # 0
      BY <1>3, <2>1, <3>1, GetSid
    <3> QED
      BY <1>3, <1>8, <3>2
  <2>15. PICK d : d = IF live /\ cmd[r][i].deaths < 2 THEN cmd[r][i].deaths + 1 ELSE cmd[r][i].deaths
    OBVIOUS
  <2>16. d \in 0..2 /\ d # 0
    <3>1. cmd[r][i].deaths \in 0..2
      BY <1>4 DEF CommandRecords
    <3>2. ~live => cmd[r][i].deaths # 0
      BY <1>0, <1>4, <1>10 DEF Deaths
    <3> QED
      BY <2>15, <3>1, <3>2
  <2>3. PICK y : y = [cmd[r][i] EXCEPT !.step = "waitingAgain", !.sid = 0, !.attempt = 1, !.deaths = d]
    OBVIOUS
  <2>4. y \in CommandRecords /\ y.step = "waitingAgain" /\ y.deaths = d
    <3>1. 1 \in 1..MaxAttempts
      OBVIOUS
    <3> QED
      BY <1>4, <2>3, <2>16, <3>1 DEF CommandRecords
  <2>5. PICK C : C = Written(r, i, y)
    OBVIOUS
  <2>6. cmd' = C
    <3>1. cmd' = [cmd EXCEPT ![r][i].step = IF boxes[b].sid # 0 THEN "sentAgain" ELSE "waitingAgain",
                             ![r][i].sid = boxes[b].sid, ![r][i].attempt = 1,
                             ![r][i].deaths = IF live /\ @ < 2 THEN @ + 1 ELSE @]
      BY <1>0, <1>1, <1>7, <1>10 DEF rejected
    <3>2. cmd' = [cmd EXCEPT ![r][i].step = "waitingAgain", ![r][i].sid = 0, ![r][i].attempt = 1,
                             ![r][i].deaths = d]
      BY <1>4, <1>8, <2>15, <3>1
    <3> QED
      BY <1>4, <2>3, <2>5, <3>2 DEF Written
  <2>7. /\ C \in [Requests -> [Commands -> CommandRecords]] /\ C[r][i] = y
        /\ \A q \in Requests, j \in Commands : q # r \/ j # i => C[q][j] = cmd[q][j]
    BY <2>4, <2>5, CommandWritten
  <2>8. TypeOK'
    BY <1>2, <1>9, <2>1, <2>2, <2>6, <2>7 DEF Typed, TypeOK
  <2>9. ASSUME NEW q \in Requests PROVE Shaped(q)'
    <3>1. Shaped(q)
      BY DEF Typed
    <3>2. \A c \in Boxes : box[c].calls # 0 => box'[c].calls # 0
      BY <1>8, <2>2
    <3>3. ASSUME NEW j \in Commands
          PROVE  /\ cmd'[q][j].step # "idle" => req[q].step = "running"
                 /\ cmd'[q][j].step \in {"waiting", "waitingAgain"} => box'[req[q].box].calls # 0
      <4>1. CASE q = r /\ j = i
        BY <1>1, <1>3, <2>2, <4>1
      <4>2. CASE ~(q = r /\ j = i)
        BY <2>6, <2>7, <3>1, <3>2, <4>2 DEF Shaped
      <4> QED
        BY <4>1, <4>2
    <3> QED
      BY <2>1, <3>1, <3>2, <3>3 DEF Shaped
  <2>10. ASSUME NEW q \in Requests, NEW j \in Commands PROVE Deaths(cmd'[q][j], alive')
    <3>1. CASE q = r /\ j = i
      <4>2. Deaths(y, alive)
        BY <2>4, <2>16 DEF Deaths
      <4> QED
        BY <1>2, <2>6, <2>7, <3>1, <4>2
    <3>2. CASE ~(q = r /\ j = i)
      BY <1>2, <2>6, <2>7, <3>2 DEF Typed
    <3> QED
      BY <3>1, <3>2
  <2>11. Typed'
    BY <2>2, <2>8, <2>9, <2>10 DEF Typed
  <2>12. Survived
    BY <2>1 DEF Survived
  <2>13. fritzBox # None /\ box[fritzBox].sid \in alive /\ box[fritzBox].sid \notin left'
           => fritzBox' = fritzBox /\ box'[fritzBox].sid = box[fritzBox].sid
    BY <1>2, <1>3, <1>8, <1>9, <2>2 DEF session
  <2>14. alive' = alive /\ left \subseteq left'
    BY <1>2
  <2> QED
    BY <2>1, <2>11, <2>12, <2>13, <2>14, SessionsStay
<1>11. CASE cmd[r][i].step = "sentAgain"
  <2>1. box' = boxes /\ cmd' = Written(r, i, NoCommand) /\ req' = Failed(r)
    BY <1>1, <1>7, <1>11 DEF rejected, Written, Failed
  <2>2. /\ req' \in [Requests -> RequestRecords]
        /\ cmd' \in [Requests -> [Commands -> CommandRecords]]
        /\ cmd'[r][i].step = "idle"
        /\ \A q \in Requests, j \in Commands : cmd'[q][j] = NoCommand \/ cmd'[q][j] = cmd[q][j]
        /\ \A q \in Requests : /\ req'[q].step = req[q].step /\ req'[q].box = req[q].box
                               /\ req'[q].stages = req[q].stages
                               /\ q # r => req'[q] = req[q]
    BY <1>11, <2>1, CommandEnds
  <2>3. TypeOK'
    BY <1>2, <1>8, <1>9, <2>1, <2>2 DEF Typed, TypeOK
  <2>4. ASSUME NEW q \in Requests PROVE Shaped(q)'
    <3>1. /\ Shaped(q) /\ req'[q].step = req[q].step /\ req'[q].box = req[q].box
          /\ req'[q].stages = req[q].stages
      BY <2>2 DEF Typed
    <3>2. \A c \in Boxes : box'[c].calls = box[c].calls
      BY <1>8, <2>1
    <3>3. \A j \in Commands : cmd'[q][j].step = "idle" \/ cmd'[q][j].step = cmd[q][j].step
      BY <2>2, RecordTypes
    <3> QED
      BY <3>1, <3>2, <3>3 DEF Shaped
  <2>5. \A q \in Requests, j \in Commands : Deaths(cmd'[q][j], alive')
    BY <1>2, <2>2, RecordTypes DEF Typed, Deaths
  <2>6. Typed'
    BY <1>8, <2>1, <2>3, <2>4, <2>5 DEF Typed
  <2>7. faults' = faults => cmd[r][i].deaths = 2
    BY <1>0, <1>2, <1>4, <1>11 DEF Deaths
  <2>8. Survived
    BY <2>2, <2>7 DEF Survived
  <2>9. fritzBox # None /\ box[fritzBox].sid \in alive /\ box[fritzBox].sid \notin left'
          => fritzBox' = fritzBox /\ box'[fritzBox].sid = box[fritzBox].sid
    BY <1>2, <1>3, <1>8, <1>9, <2>1 DEF session
  <2>10. alive' = alive /\ left \subseteq left'
    BY <1>2
  <2>11. \A q \in Requests : req[q].step = "loggingOut" => req'[q] = req[q]
    BY <1>3, <2>2
  <2> QED
    BY <2>6, <2>8, <2>9, <2>10, <2>11, SessionsStay
<1> QED
  BY <1>2, <1>10, <1>11

-----------------------------------------------------------------------------
LEMMA TypedInit ==
  ASSUME Init
  PROVE  Typed /\ SessionsAreGivenBack
<1>1. TypeOK
  <2>1. box \in [Boxes -> BoxRecords] /\ req \in [Requests -> RequestRecords]
    BY RecordTypes DEF Init
  <2>2. cmd \in [Requests -> [Commands -> CommandRecords]]
    BY RecordTypes DEF Init
  <2>3. fritzBox = None /\ alive = {} /\ logins = 0 /\ faults = 0 /\ left = {}
    BY DEF Init
  <2> QED
    BY <2>1, <2>2, <2>3 DEF TypeOK
<1>2. \A r \in Requests : Shaped(r)
  BY RecordTypes DEF Init, Shaped
<1>3. \A r \in Requests, i \in Commands : Deaths(cmd[r][i], alive)
  BY RecordTypes DEF Init, Deaths
<1>4. \A b \in Boxes : Asks(box[b])
  BY RecordTypes DEF Init, Asks
<1> QED
  BY <1>1, <1>2, <1>3, <1>4 DEF Typed, Init, SessionsAreGivenBack

LEMMA TypedNext ==
  ASSUME Typed, [Next]_vars
  PROVE  /\ Typed' /\ (UNCHANGED vars \/ Survived)
         /\ SessionsAreGivenBack => SessionsAreGivenBack'
<1>1. CASE UNCHANGED vars
  <2>1. UNCHANGED <<fritzBox, box, alive, req, cmd, logins, faults, left>>
    BY <1>1 DEF vars
  <2>2. TypeOK'
    BY <2>1 DEF Typed, TypeOK
  <2>3. \A r \in Requests : Shaped(r)'
    BY <2>1 DEF Typed, Shaped
  <2>4. Typed'
    BY <2>1, <2>2, <2>3 DEF Typed
  <2> QED
    BY <1>1, <2>1, <2>4 DEF SessionsAreGivenBack
<1>2. ASSUME NEW r \in Requests, Endpoint(r)
      PROVE  Typed' /\ Survived /\ (SessionsAreGivenBack => SessionsAreGivenBack')
  BY <1>2, Endpoints
<1>3. ASSUME NEW r \in Requests, Answer(r)
      PROVE  Typed' /\ Survived /\ (SessionsAreGivenBack => SessionsAreGivenBack')
  BY <1>3, LogoutAnswered, Proceed, Accepted, Rejected, Unanswered DEF Answer
<1>4. ASSUME NEW b \in Boxes, Login(b)
      PROVE  Typed' /\ Survived /\ (SessionsAreGivenBack => SessionsAreGivenBack')
  BY <1>4, LoginSucceeds, LoginFails DEF Login
<1>5. ASSUME NEW s \in Sids, sessionExpires(s)
      PROVE  Typed' /\ Survived /\ (SessionsAreGivenBack => SessionsAreGivenBack')
  BY <1>5, SessionExpires
<1> QED
  BY <1>1, <1>2, <1>3, <1>4, <1>5 DEF Next

(* The inductive invariant holds in every reachable state.                   *)
LEMMA TypedAlways == Spec => [](Typed /\ SessionsAreGivenBack)
<1>1. Init => Typed /\ SessionsAreGivenBack
  BY TypedInit
<1>2. Typed /\ SessionsAreGivenBack /\ [Next]_vars => (Typed /\ SessionsAreGivenBack)'
  BY TypedNext
<1> QED
  BY <1>1, <1>2, PTL DEF Spec

(* Every reachable state is well typed: the objects, requests and commands   *)
(* of heating.service.ts and avm-fritz-box keep to their domains.            *)
THEOREM TypeCorrect == Spec => []TypeOK
<1>1. Typed => TypeOK
  BY DEF Typed
<1> QED
  BY <1>1, TypedAlways, PTL

(* A command or connect that waits for a session shares a login that is      *)
(* under way (DefaultSessionManager.getSid and authenticate), however many   *)
(* requests there are and whatever replaced or emptied the object meanwhile. *)
THEOREM AWaiterHasALogin == Spec => []NobodyWaitsInVain
<1>1. Typed => NobodyWaitsInVain
  BY DEF Typed, Shaped, NobodyWaitsInVain
<1> QED
  BY <1>1, TypedAlways, PTL

(* A session that exists belongs to this.fritzBox or is being logged out    *)
(* (connect and disconnect of HeatingService), or it is one of those a step *)
(* leaves behind that replaces or drops its object, loses a login reply or  *)
(* discards its sid.                                                        *)
THEOREM NoSessionIsLeaked == Spec => []SessionsAreGivenBack
BY TypedAlways, PTL

(* A request fails, with nobody failing to answer, only when a second        *)
(* session ended under one of its commands (AhaClient.execute).              *)
THEOREM AnExpiryIsSurvived == Spec => OneExpiryIsSurvived
<1>1. Typed /\ [Next]_vars
        => [\A r \in Requests : req'[r].failed /\ ~req[r].failed /\ faults' = faults /\ logins < MaxLogins =>
              \E i \in Commands : cmd[r][i].deaths = 2 /\ cmd'[r][i].step = "idle"]_vars
  BY TypedNext DEF Survived
<1> QED
  BY <1>1, TypedAlways, PTL DEF Spec, OneExpiryIsSurvived
=============================================================================
